---- MODULE Spec2Model ----
(***************************************************************************)
(* Model of the graph store of src/src/graph.rs: a Vec<Option<ObjectData>> *)
(* of atoms, links and abstract objects, two uniqueness maps, back-link    *)
(* vectors, guarded removal and the serde codec.                           *)
(*                                                                         *)
(* Model of the slot allocator of src/src/main.rs (mod slot_vec): a Vec of *)
(* Used/Unused slots threaded by a free list.                              *)
(*                                                                         *)
(* Model of the tag-augmented graph of src/src/graph2.rs: four slot vectors *)
(* (objects, links, tags, atoms), three uniqueness maps and sorted-Vec sets *)
(* of back-links.                                                          *)
(*                                                                         *)
(* Model of the relations Database of src/src/relations.rs: one slot       *)
(* vector of elements and the maps of atoms and relations.                 *)
(*                                                                         *)
(* Indexes are 0-based as in the source; slot i of the Vec is objects[i+1].*)
(* A panic (unwrap of None, failed assert_eq!) aborts the program: the     *)
(* state at the point of the panic is kept and no operation follows.       *)
(***************************************************************************)
EXTENDS Integers, Sequences, FiniteSets, TLC

\* Bounds of the exploration: slots the Vec may grow to and calls made.
\* Spec explores every operation, SpecWide short call sequences on more
\* slots, SpecRemoval longer sequences of insertions and removals only.
MaxSlots == 3
MaxCalls == 5
WideSlots == 4
WideCalls == 4
RemovalSlots == 3
RemovalCalls == 6
\* SpecDecode deserializes slot sequences of at most DecodeLen records.
DecodeLen == 2
\* SpecSlotVec: a SlotVec of at most SvSlots slots, SvCalls insert/remove calls.
SvSlots == 3
SvCalls == 6
\* SpecSlotLookup: the same with get/get_mut, on a smaller SlotVec.
LookupSlots == 2
LookupCalls == 3
\* SpecReuse: either store, at most ReuseSlots slots and ReuseCalls calls.
ReuseSlots == 3
ReuseCalls == 4
\* SpecFacade: the Index-taking operations, get_object included.
FacadeSlots == 3
FacadeCalls == 4
\* SpecTraversal: the mutators and the objects() traversal.
TraversalSlots == 3
TraversalCalls == 5
\* SpecTags: each slot vector of the tag-augmented graph holds at most
\* TagSlots elements, and at most TagCalls calls are made.
TagSlots == 2
TagCalls == 4
\* SpecRelations: a Database of at most RelSlots elements, RelCalls calls.
RelSlots == 2
RelCalls == 3

\* Atom values (Atom::Text / Atom::Integer payloads) and description texts
\* the callers draw from.
Atoms == {"x", "y"}
Descriptions == {"d"}
\* Values stored in a SlotVec.
SvValues == {"a", "b"}

(***************************************************************************)
(* Data types.                                                             *)
(***************************************************************************)
None == [kind |-> "None"]

Link(from, to) == [from |-> from, to |-> to]

ObjectAtom(a) == [kind |-> "Atom", atom |-> a]
ObjectLink(l) == [kind |-> "Link", link |-> l]
ObjectAbstract == [kind |-> "Abstract"]

\* An element that starts with a description.
ObjectData_new_described(object) ==
    [kind |-> "Some", object |-> object, description |-> "d",
     in_links |-> <<>>, out_links |-> <<>>]

ObjectData_new(object) ==
    [kind |-> "Some", object |-> object, description |-> "",
     in_links |-> <<>>, out_links |-> <<>>]

is_some(cell) == cell.kind = "Some"
is_link(object) == object.kind = "Link"
is_atom(object) == object.kind = "Atom"
is_abstract(object) == object.kind = "Abstract"

\* Results.
Ok(v) == [ok |-> TRUE, val |-> v]
Err(e) == [ok |-> FALSE, err |-> e]
InvalidIndex == Err("InvalidIndex")
CannotRemoveLinked == Err("CannotRemoveLinked")
Panicked == Err("panic")
Unit == "()"

\* HashMap helpers: a map is a function on the set of its keys.
EmptyMap == [k \in {} |-> 0]
MapInsert(m, k, v) == [x \in (DOMAIN m) \cup {k} |-> IF x = k THEN v ELSE m[x]]
\* A remove_entry that leaves the map as it is.
MapRemove_keeps(m, k) == m

MapRemove(m, k) == [x \in (DOMAIN m) \ {k} |-> m[x]]
MapGet(m, k) == IF k \in DOMAIN m THEN Ok(m[k]) ELSE Err("None")

\* Vec::retain(|i| *i != index)
\* A retain that keeps every entry.
Retain_all(s, index) == s

Retain(s, index) == SelectSeq(s, LAMBDA i : i # index)

(***************************************************************************)
(* Graph values: [objects, atom_indexes, link_indexes, panic].             *)
(***************************************************************************)
Graph_new ==
    [objects |-> <<>>, atom_indexes |-> EmptyMap, link_indexes |-> EmptyMap,
     panic |-> "none"]

valid(g, index) ==
    index < Len(g.objects) /\ is_some(g.objects[index + 1])

\* Lookups that never find the value.
get_atom_index_miss(g, atom) == Err("None")
get_link_index_miss(g, link) == Err("None")

\* A link lookup that also matches the link of opposite direction.
get_link_index_undirected(g, link) ==
    IF link \in DOMAIN g.link_indexes THEN Ok(g.link_indexes[link])
    ELSE IF [from |-> link.to, to |-> link.from] \in DOMAIN g.link_indexes
    THEN Ok(g.link_indexes[[from |-> link.to, to |-> link.from]])
    ELSE Err("None")

get_atom_index(g, atom) == MapGet(g.atom_indexes, atom)
get_link_index(g, link) == MapGet(g.link_indexes, link)

\* A new element always goes to the end of the Vec.
insert_index_append(g) == Len(g.objects)

\* A new element always goes to the first slot of the Vec.
insert_index_first(g) == 0

\* A new element goes to the highest unused slot of the Vec.
insert_index_highest(g) ==
    IF \E i \in 0 .. Len(g.objects) - 1 : ~is_some(g.objects[i + 1])
    THEN CHOOSE i \in 0 .. Len(g.objects) - 1 :
            /\ ~is_some(g.objects[i + 1])
            /\ \A j \in i + 1 .. Len(g.objects) - 1 : is_some(g.objects[j + 1])
    ELSE Len(g.objects)

\* Lowest unused index, or the length of the Vec when every slot is used.
insert_index(g) ==
    IF \E i \in 0 .. Len(g.objects) - 1 : ~is_some(g.objects[i + 1])
    THEN CHOOSE i \in 0 .. Len(g.objects) - 1 :
            /\ ~is_some(g.objects[i + 1])
            /\ \A j \in 0 .. i - 1 : is_some(g.objects[j + 1])
    ELSE Len(g.objects)

insert_object(g, object) ==
    LET index == insert_index(g) IN
    [g |-> [g EXCEPT !.objects =
                IF index < Len(g.objects)
                THEN [g.objects EXCEPT ![index + 1] = ObjectData_new(object)]
                ELSE Append(g.objects, ObjectData_new(object))],
     index |-> index]

\* register_atom without the insertion in the map.
register_atom_forgets(g, index, atom) == g

register_atom(g, index, atom) ==
    LET old == MapGet(g.atom_indexes, atom)
        g1 == [g EXCEPT !.atom_indexes = MapInsert(g.atom_indexes, atom, index)]
    IN IF old.ok THEN [g1 EXCEPT !.panic = "assert_eq failed"] ELSE g1

\* self.objects[index].as_mut().unwrap(): "none" when it yields the object
\* data, else the panic it raises.
unwrap_slot(g, index) ==
    IF index >= Len(g.objects) THEN "index out of bounds"
    ELSE IF ~is_some(g.objects[index + 1]) THEN "unwrap on None"
    ELSE "none"

\* register_link without the push on in_links of the target.
register_link_out_only(g, index, link) ==
    [g EXCEPT !.objects[link.from + 1].out_links = Append(@, index),
              !.link_indexes = MapInsert(g.link_indexes, link, index)]

register_link(g, index, link) ==
    IF unwrap_slot(g, link.from) # "none"
    THEN [g EXCEPT !.panic = unwrap_slot(g, link.from)]
    ELSE
    LET g1 == [g EXCEPT !.objects[link.from + 1].out_links =
                            Append(@, index)]
    IN IF unwrap_slot(g1, link.to) # "none"
       THEN [g1 EXCEPT !.panic = unwrap_slot(g1, link.to)]
       ELSE
       LET g2 == [g1 EXCEPT !.objects[link.to + 1].in_links =
                               Append(@, index)]
           old == MapGet(g2.link_indexes, link)
           g3 == [g2 EXCEPT !.link_indexes =
                               MapInsert(g2.link_indexes, link, index)]
       IN IF old.ok THEN [g3 EXCEPT !.panic = "assert_eq failed"]
          ELSE g3

\* Each operation returns [g |-> graph after the call, ret |-> result].
\* A get_object that only tests the bounds of the Vec.
get_object_in_bounds(g, index) ==
    IF index < Len(g.objects)
    THEN [g |-> g,
          ret |-> Ok([index |-> index, object_data |-> g.objects[index + 1]])]
    ELSE [g |-> g, ret |-> InvalidIndex]

\* The ObjectRef holds the index and a reference to the ObjectData.
get_object(g, index) ==
    IF index < Len(g.objects) /\ is_some(g.objects[index + 1])
    THEN [g |-> g,
          ret |-> Ok([index |-> index, object_data |-> g.objects[index + 1]])]
    ELSE [g |-> g, ret |-> InvalidIndex]

\* An iterator step that gives up at the first empty slot.
iterator_next_stops(g, next_index) ==
    IF next_index >= Len(g.objects)
    THEN [next_index |-> next_index, ret |-> None]
    ELSE IF get_object(g, next_index).ret.ok
         THEN [next_index |-> next_index + 1,
               ret |-> [kind |-> "Some",
                        val |-> get_object(g, next_index).ret.val]]
         ELSE [next_index |-> next_index + 1, ret |-> None]

\* OrderedObjectIterator::next on an iterator at next_index: the item, and
\* the next_index the iterator is left with.
RECURSIVE iterator_next(_, _)
iterator_next(g, next_index) ==
    IF next_index >= Len(g.objects)
    THEN [next_index |-> next_index, ret |-> None]
    ELSE IF get_object(g, next_index).ret.ok
         THEN [next_index |-> next_index + 1,
               ret |-> [kind |-> "Some",
                        val |-> get_object(g, next_index).ret.val]]
         ELSE iterator_next(g, next_index + 1)

\* The items that an iterator at next_index yields until its first None,
\* and the next_index it ends with.
RECURSIVE iterator_collect(_, _)
iterator_collect(g, next_index) ==
    LET step == iterator_next(g, next_index) IN
    IF step.ret = None
    THEN [items |-> <<>>, next_index |-> step.next_index]
    ELSE LET rest == iterator_collect(g, step.next_index) IN
         [items |-> <<step.ret.val>> \o rest.items,
          next_index |-> rest.next_index]

\* for object in graph.objects(): the traversal from next_index = 0.
objects_traversal(g) ==
    [g |-> g, ret |-> Ok(iterator_collect(g, 0))]

\* A set_description that stores a new ObjectData with the description.
set_description_resets(g, index, text) ==
    IF valid(g, index)
    THEN [g |-> [g EXCEPT !.objects[index + 1] =
                    [ObjectData_new(g.objects[index + 1].object)
                        EXCEPT !.description = text]],
          ret |-> Ok(Unit)]
    ELSE [g |-> g, ret |-> InvalidIndex]

set_description(g, index, text) ==
    IF valid(g, index)
    THEN [g |-> [g EXCEPT !.objects[index + 1].description = text],
          ret |-> Ok(Unit)]
    ELSE [g |-> g, ret |-> InvalidIndex]

use_atom(g, atom) ==
    LET found == get_atom_index(g, atom) IN
    IF found.ok
    THEN [g |-> g, ret |-> Ok(found.val)]
    ELSE LET ins == insert_object(g, ObjectAtom(atom))
             g2 == register_atom(ins.g, ins.index, atom)
         IN [g |-> g2,
             ret |-> IF g2.panic = "none" THEN Ok(ins.index) ELSE Panicked]

\* Validity of both endpoints, as use_link tests it.
valid_endpoints_from_only(g, link) == valid(g, link.from)

valid_endpoints(g, link) == valid(g, link.from) /\ valid(g, link.to)

use_link(g, link) ==
    IF valid_endpoints(g, link)
    THEN LET found == get_link_index(g, link) IN
         IF found.ok
         THEN [g |-> g, ret |-> Ok(found.val)]
         ELSE LET ins == insert_object(g, ObjectLink(link))
                  g2 == register_link(ins.g, ins.index, link)
              IN [g |-> g2,
                  ret |-> IF g2.panic = "none" THEN Ok(ins.index)
                          ELSE Panicked]
    ELSE [g |-> g, ret |-> InvalidIndex]

\* A create_abstract that returns an Abstract of the graph if there is one.
create_abstract_dedup(g) ==
    LET abstracts == {i \in 0 .. Len(g.objects) - 1 :
                         valid(g, i) /\ is_abstract(g.objects[i + 1].object)}
    IN IF abstracts # {}
       THEN [g |-> g, ret |-> Ok(CHOOSE i \in abstracts : TRUE)]
       ELSE [g |-> insert_object(g, ObjectAbstract).g,
             ret |-> Ok(insert_object(g, ObjectAbstract).index)]

create_abstract(g) ==
    LET ins == insert_object(g, ObjectAbstract)
    IN [g |-> ins.g, ret |-> Ok(ins.index)]

\* The filter with `||` in place of `&&`.
remove_filter_or(g, index) ==
    IF ~valid(g, index) THEN InvalidIndex
    ELSE LET data == g.objects[index + 1] IN
         IF is_link(data.object)
            \/ ~(data.in_links = <<>> /\ data.out_links = <<>>)
         THEN CannotRemoveLinked
         ELSE Ok(Unit)

\* The filter at the head of remove_object.
remove_filter(g, index) ==
    IF ~valid(g, index) THEN InvalidIndex
    ELSE LET data == g.objects[index + 1] IN
         IF is_link(data.object)
            /\ ~(data.in_links = <<>> /\ data.out_links = <<>>)
         THEN CannotRemoveLinked
         ELSE Ok(Unit)

remove_object(g, index) ==
    LET filter == remove_filter(g, index) IN
    IF ~filter.ok THEN [g |-> g, ret |-> filter]
    ELSE
    LET object == g.objects[index + 1].object
        g1 == [g EXCEPT !.objects[index + 1] = None]
    IN
    IF is_atom(object)
    THEN [g |-> [g1 EXCEPT !.atom_indexes =
                    MapRemove(g1.atom_indexes, object.atom)],
          ret |-> Ok(Unit)]
    ELSE IF is_link(object)
    THEN LET l == object.link
             g2 == [g1 EXCEPT !.link_indexes = MapRemove(g1.link_indexes, l)]
         IN IF unwrap_slot(g2, l.from) # "none"
            THEN [g |-> [g2 EXCEPT !.panic = unwrap_slot(g2, l.from)],
                  ret |-> Panicked]
            ELSE
            LET g3 == [g2 EXCEPT !.objects[l.from + 1].out_links =
                                     Retain(@, index)]
            IN IF unwrap_slot(g3, l.to) # "none"
               THEN [g |-> [g3 EXCEPT !.panic = unwrap_slot(g3, l.to)],
                     ret |-> Panicked]
               ELSE [g |-> [g3 EXCEPT !.objects[l.to + 1].in_links =
                                          Retain(@, index)],
                     ret |-> Ok(Unit)]
    ELSE [g |-> g1, ret |-> Ok(Unit)]

(***************************************************************************)
(* Serde codec.  The serialized form is the sequence of slots, each either *)
(* None or {object, description}; in_links/out_links are skipped.          *)
(***************************************************************************)
serialize(g) ==
    [i \in 1 .. Len(g.objects) |->
        IF is_some(g.objects[i])
        THEN [kind |-> "Some", object |-> g.objects[i].object,
              description |-> g.objects[i].description]
        ELSE None]

\* Vec::<Option<ObjectData>>::deserialize: skipped fields take their default.
deserialize_objects(records) ==
    [i \in 1 .. Len(records) |->
        IF is_some(records[i])
        THEN [kind |-> "Some", object |-> records[i].object,
              description |-> records[i].description,
              in_links |-> <<>>, out_links |-> <<>>]
        ELSE None]

\* The validation of a link record with only the slots before it in view.
restore_valid_backward(g, index, link) ==
    /\ valid(g, link.from) /\ link.from < index
    /\ valid(g, link.to) /\ link.to < index

\* The validation of the link record at `index`, against the whole Vec.
restore_valid(g, index, link) == valid(g, link.from) /\ valid(g, link.to)

\* The restore loop, from slot `index` on.
RECURSIVE deserialize_restore(_, _)
deserialize_restore(g, index) ==
    IF index >= Len(g.objects) \/ g.panic # "none" THEN
        [g |-> g, ret |-> IF g.panic = "none" THEN Ok(Unit) ELSE Panicked]
    ELSE
    LET cell == g.objects[index + 1] IN
    IF is_some(cell) /\ is_atom(cell.object)
    THEN deserialize_restore(register_atom(g, index, cell.object.atom),
                             index + 1)
    ELSE IF is_some(cell) /\ is_link(cell.object)
    THEN LET link == cell.object.link IN
         IF ~restore_valid(g, index, link)
         THEN [g |-> g, ret |-> Err(<<"invalid link at index", index>>)]
         ELSE deserialize_restore(register_link(g, index, link), index + 1)
    ELSE deserialize_restore(g, index + 1)

\* deserialize without the restore loop.
deserialize_no_restore(records) ==
    [g |-> [Graph_new EXCEPT !.objects = deserialize_objects(records)],
     ret |-> Ok(Unit)]

deserialize(records) ==
    deserialize_restore(
        [Graph_new EXCEPT !.objects = deserialize_objects(records)], 0)

(***************************************************************************)
(* SlotVec values: [slots, next_unused_slot_id, nb_objects, panic].        *)
(* Every operation returns [sv, ret].                                      *)
(***************************************************************************)
Some(v) == [kind |-> "Some", val |-> v]

Used(value) == [kind |-> "Used", value |-> value]
Unused(next) == [kind |-> "Unused", next |-> next]

SlotVec_new ==
    [slots |-> <<>>, next_unused_slot_id |-> None, nb_objects |-> 0,
     panic |-> "none"]

SlotVec_len(sv) == sv.nb_objects
nb_slots(sv) == Len(sv.slots)

\* self.slots[index] beyond the end of the Vec panics.
SlotVec_oob(sv) ==
    [sv |-> [sv EXCEPT !.panic = "index out of bounds"], ret |-> Panicked]

SlotVec_get(sv, index) ==
    IF index >= nb_slots(sv) THEN SlotVec_oob(sv)
    ELSE IF sv.slots[index + 1].kind = "Used"
         THEN [sv |-> sv, ret |-> Some(sv.slots[index + 1].value)]
         ELSE [sv |-> sv, ret |-> None]

SlotVec_get_mut(sv, index) ==
    IF index >= nb_slots(sv) THEN SlotVec_oob(sv)
    ELSE IF sv.slots[index + 1].kind = "Used"
         THEN [sv |-> sv, ret |-> Some(sv.slots[index + 1].value)]
         ELSE [sv |-> sv, ret |-> None]

\* An insert that always allocates a new slot.
SlotVec_insert_append(sv, value) ==
    [sv |-> [sv EXCEPT !.slots = Append(@, Used(value)),
                       !.nb_objects = @ + 1],
     ret |-> nb_slots(sv)]

\* An insert that writes in the first slot of the Vec when there is one.
SlotVec_insert_first(sv, value) ==
    IF nb_slots(sv) > 0
    THEN [sv |-> [sv EXCEPT !.slots[1] = Used(value), !.nb_objects = @ + 1],
          ret |-> 0]
    ELSE [sv |-> [sv EXCEPT !.slots = Append(@, Used(value)),
                            !.nb_objects = @ + 1],
          ret |-> 0]

\* An insert that fills the head of the free list and leaves it the head.
SlotVec_insert_keeps_head(sv, value) ==
    IF sv.next_unused_slot_id # None
    THEN LET unused_id == sv.next_unused_slot_id.val IN
         IF unused_id >= nb_slots(sv) THEN SlotVec_oob(sv)
         ELSE IF sv.slots[unused_id + 1].kind = "Unused"
              THEN [sv |-> [sv EXCEPT
                               !.slots[unused_id + 1] = Used(value),
                               !.nb_objects = @ + 1],
                    ret |-> unused_id]
              ELSE [sv |-> [sv EXCEPT !.panic = "Used Slot in free list"],
                    ret |-> Panicked]
    ELSE [sv |-> [sv EXCEPT !.slots = Append(@, Used(value)),
                            !.nb_objects = @ + 1],
          ret |-> nb_slots(sv)]

SlotVec_insert(sv, value) ==
    IF sv.next_unused_slot_id # None
    THEN LET unused_id == sv.next_unused_slot_id.val IN
         IF unused_id >= nb_slots(sv) THEN SlotVec_oob(sv)
         ELSE IF sv.slots[unused_id + 1].kind = "Unused"
              THEN [sv |-> [sv EXCEPT
                               !.next_unused_slot_id =
                                   sv.slots[unused_id + 1].next,
                               !.slots[unused_id + 1] = Used(value),
                               !.nb_objects = @ + 1],
                    ret |-> unused_id]
              ELSE [sv |-> [sv EXCEPT !.panic = "Used Slot in free list"],
                    ret |-> Panicked]
    ELSE [sv |-> [sv EXCEPT !.slots = Append(@, Used(value)),
                            !.nb_objects = @ + 1],
          ret |-> nb_slots(sv)]

\* A remove that forgets to decrement nb_objects.
SlotVec_remove_no_count(sv, index) ==
    IF index >= nb_slots(sv) THEN SlotVec_oob(sv)
    ELSE IF sv.slots[index + 1].kind = "Used"
         THEN [sv |-> [sv EXCEPT
                          !.next_unused_slot_id = Some(index),
                          !.slots[index + 1] = Unused(sv.next_unused_slot_id)],
               ret |-> Some(sv.slots[index + 1].value)]
         ELSE [sv |-> sv, ret |-> None]

\* A remove that puts the slot on the free list whatever its state.
SlotVec_remove_relinks(sv, index) ==
    IF index >= nb_slots(sv) THEN SlotVec_oob(sv)
    ELSE [sv |-> [sv EXCEPT
                     !.next_unused_slot_id = Some(index),
                     !.slots[index + 1] = Unused(sv.next_unused_slot_id),
                     !.nb_objects =
                         IF sv.slots[index + 1].kind = "Used" THEN @ - 1 ELSE @],
          ret |-> IF sv.slots[index + 1].kind = "Used"
                  THEN Some(sv.slots[index + 1].value) ELSE None]

SlotVec_remove(sv, index) ==
    IF index >= nb_slots(sv) THEN SlotVec_oob(sv)
    ELSE IF sv.slots[index + 1].kind = "Used"
         THEN [sv |-> [sv EXCEPT
                          !.next_unused_slot_id = Some(index),
                          !.slots[index + 1] = Unused(sv.next_unused_slot_id),
                          !.nb_objects = @ - 1],
               ret |-> Some(sv.slots[index + 1].value)]
         ELSE [sv |-> sv, ret |-> None]

(***************************************************************************)
(* Tag-augmented graph values: [objects, links, tags, atoms, link_indexes, *)
(* tag_indexes, atom_indexes, panic].  A SlotVec of graph2.rs is its inner *)
(* Vec<Option<T>>; a Set is its sorted inner Vec.  Every operation returns *)
(* [g, ret].                                                               *)
(***************************************************************************)
TagTargetIndex(kind, index) == [kind |-> kind, index |-> index]
Tag(source, target) == [source |-> source, target |-> target]

graph2_ObjectData ==
    [kind |-> "Some", description |-> "", in_links |-> <<>>,
     out_links |-> <<>>, tag_target |-> <<>>]
graph2_LinkData(l) == [kind |-> "Some", link |-> l, tag_target |-> <<>>]
graph2_TagData(t) == [kind |-> "Some", tag |-> t, tag_target |-> <<>>]
graph2_AtomData(a) == [kind |-> "Some", atom |-> a, tag_source |-> <<>>]

graph2_new ==
    [objects |-> <<>>, links |-> <<>>, tags |-> <<>>, atoms |-> <<>>,
     link_indexes |-> EmptyMap, tag_indexes |-> EmptyMap,
     atom_indexes |-> EmptyMap, panic |-> "none"]

\* SlotVec::get(i).is_ok() on the inner Vec.
graph2_slot_valid(inner, i) == i < Len(inner) /\ is_some(inner[i + 1])

\* SlotVec::insert: the index of the first None cell, or the length.
graph2_slot_insert_index(inner) ==
    IF \E i \in 1 .. Len(inner) : ~is_some(inner[i])
    THEN (CHOOSE i \in 1 .. Len(inner) :
             /\ ~is_some(inner[i])
             /\ \A j \in 1 .. i - 1 : is_some(inner[j])) - 1
    ELSE Len(inner)

graph2_slot_insert(inner, e) ==
    LET index == graph2_slot_insert_index(inner) IN
    IF index < Len(inner) THEN [inner EXCEPT ![index + 1] = e]
    ELSE Append(inner, e)

\* Set::insert: binary_search, then Vec::insert at the insertion index.
Set_insert(set, e) ==
    IF \E k \in 1 .. Len(set) : set[k] = e THEN set
    ELSE LET before == SelectSeq(set, LAMBDA x : x < e)
             after == SelectSeq(set, LAMBDA x : x > e)
         IN before \o <<e>> \o after

\* The slot vector that a tag target designates.
graph2_target_field(target) ==
    CASE target.kind = "Object" -> "objects"
      [] target.kind = "Link" -> "links"
      [] target.kind = "Tag" -> "tags"

\* A validation of a Tag that looks at its source only.
graph2_valid_tag_source_only(g, t) == graph2_slot_valid(g.atoms, t.source)

\* The validation at the head of insert_tag.
graph2_valid_tag(g, t) ==
    /\ graph2_slot_valid(g.atoms, t.source)
    /\ graph2_slot_valid(g[graph2_target_field(t.target)], t.target.index)

\* Lookups of a Tag that never find it.
graph2_index_of_tag_miss(g, t) == Err("None")

graph2_index_of_link(g, l) == MapGet(g.link_indexes, l)
graph2_index_of_tag(g, t) == MapGet(g.tag_indexes, t)
graph2_index_of_atom(g, a) == MapGet(g.atom_indexes, a)

\* Index / IndexMut unwrap the result of get: "none" when slot i is there.
graph2_unwrap(inner, i) ==
    IF graph2_slot_valid(inner, i) THEN "none" ELSE "unwrap on Err"

graph2_panic(g, panic) == [g |-> [g EXCEPT !.panic = panic], ret |-> Panicked]

graph2_create_object(g) ==
    [g |-> [g EXCEPT !.objects = graph2_slot_insert(@, graph2_ObjectData)],
     ret |-> Ok(graph2_slot_insert_index(g.objects))]

graph2_insert_link(g, l) ==
    IF ~(graph2_slot_valid(g.objects, l.from)
            /\ graph2_slot_valid(g.objects, l.to))
    THEN [g |-> g, ret |-> InvalidIndex]
    ELSE IF graph2_index_of_link(g, l).ok
    THEN [g |-> g, ret |-> graph2_index_of_link(g, l)]
    ELSE
    LET new_index == graph2_slot_insert_index(g.links)
        g1 == [g EXCEPT !.links = graph2_slot_insert(@, graph2_LinkData(l))]
        g2 == [g1 EXCEPT !.objects[l.from + 1].out_links =
                             Set_insert(@, new_index)]
        g3 == [g2 EXCEPT !.objects[l.to + 1].in_links =
                             Set_insert(@, new_index)]
    IN [g |-> [g3 EXCEPT !.link_indexes = MapInsert(@, l, new_index)],
        ret |-> Ok(new_index)]

graph2_insert_tag(g, t) ==
    IF ~graph2_valid_tag(g, t)
    THEN [g |-> g, ret |-> InvalidIndex]
    ELSE IF graph2_index_of_tag(g, t).ok
    THEN [g |-> g, ret |-> graph2_index_of_tag(g, t)]
    ELSE
    LET new_index == graph2_slot_insert_index(g.tags)
        field == graph2_target_field(t.target)
        g1 == [g EXCEPT !.tags = graph2_slot_insert(@, graph2_TagData(t))]
    IN IF graph2_unwrap(g1.atoms, t.source) # "none"
       THEN graph2_panic(g1, graph2_unwrap(g1.atoms, t.source))
       ELSE
       LET g2 == [g1 EXCEPT !.atoms[t.source + 1].tag_source =
                                Set_insert(@, new_index)]
       IN IF graph2_unwrap(g2[field], t.target.index) # "none"
          THEN graph2_panic(g2, graph2_unwrap(g2[field], t.target.index))
          ELSE
          LET g3 == [g2 EXCEPT ![field][t.target.index + 1].tag_target =
                                   Set_insert(@, new_index)]
          IN [g |-> [g3 EXCEPT !.tag_indexes = MapInsert(@, t, new_index)],
              ret |-> Ok(new_index)]

graph2_insert_atom(g, a) ==
    IF graph2_index_of_atom(g, a).ok
    THEN [g |-> g, ret |-> graph2_index_of_atom(g, a)]
    ELSE
    LET new_index == graph2_slot_insert_index(g.atoms)
        g1 == [g EXCEPT !.atoms = graph2_slot_insert(@, graph2_AtomData(a))]
    IN [g |-> [g1 EXCEPT !.atom_indexes = MapInsert(@, a, new_index)],
        ret |-> Ok(new_index)]

(***************************************************************************)
(* Database values of relations.rs: [elements, index_of_atoms,             *)
(* index_of_relations].  Every operation returns [db, ret].                *)
(***************************************************************************)
Relation(subject, descriptor, complement) ==
    [subject |-> subject, descriptor |-> descriptor, complement |-> complement]

ElementAbstract == [kind |-> "Abstract"]
ElementConcrete(a) == [kind |-> "Concrete", atom |-> a]
ElementRelation(r) == [kind |-> "Relation", relation |-> r]

Database_new ==
    [elements |-> <<>>, index_of_atoms |-> EmptyMap,
     index_of_relations |-> EmptyMap]

\* SlotVec::get(i).is_ok() on the inner Vec of elements.
relations_is_valid(db, i) ==
    i < Len(db.elements) /\ is_some(db.elements[i + 1])

\* SlotVec::insert: the index of the first None cell, or the length.
relations_insert_index(inner) ==
    IF \E i \in 1 .. Len(inner) : ~is_some(inner[i])
    THEN (CHOOSE i \in 1 .. Len(inner) :
             /\ ~is_some(inner[i])
             /\ \A j \in 1 .. i - 1 : is_some(inner[j])) - 1
    ELSE Len(inner)

\* The Database with e in a slot of elements, and the index of the slot.
add_new_element_to_data_vec(db, e) ==
    LET index == relations_insert_index(db.elements)
        data == [kind |-> "Some", value |-> e, subject_of |-> <<>>,
                 descriptor_of |-> <<>>, complement_of |-> <<>>]
    IN [db |-> [db EXCEPT !.elements =
                   IF index < Len(db.elements)
                   THEN [db.elements EXCEPT ![index + 1] = data]
                   ELSE Append(db.elements, data)],
        index |-> index]

index_of_atom(db, atom) == MapGet(db.index_of_atoms, atom)
index_of_relation(db, relation) == MapGet(db.index_of_relations, relation)

create_abstract_element(db) ==
    LET added == add_new_element_to_data_vec(db, ElementAbstract)
    IN [db |-> added.db, ret |-> Ok(added.index)]

relations_insert_atom(db, atom) ==
    IF index_of_atom(db, atom).ok
    THEN [db |-> db, ret |-> index_of_atom(db, atom)]
    ELSE LET added == add_new_element_to_data_vec(db, ElementConcrete(atom))
         IN [db |-> [added.db EXCEPT !.index_of_atoms =
                        MapInsert(@, atom, added.index)],
             ret |-> Ok(added.index)]

\* A validation that does not look at the complement.
all_indexes_valid_no_complement(db, relation) ==
    /\ relations_is_valid(db, relation.subject)
    /\ relations_is_valid(db, relation.descriptor)

all_indexes_valid(db, relation) ==
    /\ relations_is_valid(db, relation.subject)
    /\ relations_is_valid(db, relation.descriptor)
    /\ relation.complement = None
          \/ relations_is_valid(db, relation.complement.val)

insert_relation(db, relation) ==
    IF ~all_indexes_valid(db, relation)
    THEN [db |-> db, ret |-> InvalidIndex]
    ELSE IF index_of_relation(db, relation).ok
    THEN [db |-> db, ret |-> index_of_relation(db, relation)]
    ELSE LET added == add_new_element_to_data_vec(db, ElementRelation(relation))
         IN [db |-> [added.db EXCEPT !.index_of_relations =
                        MapInsert(@, relation, added.index)],
             ret |-> Ok(added.index)]

(***************************************************************************)
(* State.                                                                  *)
(***************************************************************************)
VARIABLES
    objects,        \* Graph::objects
    atom_indexes,   \* Graph::atom_indexes
    link_indexes,   \* Graph::link_indexes
    panicked,       \* "none", or the panic that aborted the program
    call,           \* the last call made: operation, arguments, result,
                    \* and the graph it was made on
    ncalls,         \* number of calls made so far
    decoded,        \* result of the last serialize/deserialize round trip,
                    \* NotRun when the graph was touched since
    sv,             \* the SlotVec
    svtrace,        \* the insert/remove calls made on sv, in order, each
                    \* with its result and len(), nb_slots() after it
    svget,          \* the last get/get_mut made on sv since its last
                    \* insert/remove, NotRun if none
    tg,             \* the tag-augmented graph
    tgcall,         \* the last call made on tg: operation, arguments,
                    \* result, and the graph it was made on
    tgcalls,        \* number of calls made on tg so far
    db,             \* the relations Database
    dbcall,         \* the last call made on db: operation, arguments,
                    \* result, and the Database it was made on
    dbcalls         \* number of calls made on db so far

vars ==
    <<ncalls, svtrace, tgcalls, dbcalls, objects, atom_indexes, link_indexes,
      panicked, call, decoded, sv, svget, tg, tgcall, db, dbcall>>

gvars == <<objects, atom_indexes, link_indexes, panicked, call, ncalls, decoded>>
svvars == <<sv, svtrace, svget>>
tgvars == <<tg, tgcall, tgcalls>>
dbvars == <<db, dbcall, dbcalls>>

NotRun == Err("not run")

graph ==
    [objects |-> objects, atom_indexes |-> atom_indexes,
     link_indexes |-> link_indexes, panic |-> panicked]

\* Number of occupied slots.
LiveCount(objs) == Cardinality({i \in 1 .. Len(objs) : is_some(objs[i])})

\* Indexes a caller may supply: every slot of the Vec, occupied or not, and
\* the first index that is out of bounds.
Indexes == 0 .. Len(objects)

\* The program runs, and the call budget is not used up.
Running(calls) == panicked = "none" /\ ncalls < calls

\* An insertion needs a free slot or room to grow within the bound.
CanInsert(slots) == insert_index(graph) < slots

Commit(r, op, args) ==
    /\ objects' = r.g.objects
    /\ atom_indexes' = r.g.atom_indexes
    /\ link_indexes' = r.g.link_indexes
    /\ panicked' = r.g.panic
    /\ call' = [op |-> op, args |-> args, ret |-> r.ret, pre |-> graph]
    /\ ncalls' = ncalls + 1
    /\ decoded' = NotRun
    /\ UNCHANGED svvars
    /\ UNCHANGED tgvars
    /\ UNCHANGED dbvars

Init ==
    /\ objects = <<>>
    /\ atom_indexes = EmptyMap
    /\ link_indexes = EmptyMap
    /\ panicked = "none"
    /\ call = [op |-> "new", args |-> <<>>, ret |-> Ok(Unit), pre |-> Graph_new]
    /\ ncalls = 0
    /\ decoded = NotRun
    /\ sv = SlotVec_new
    /\ svtrace = <<>>
    /\ svget = NotRun
    /\ tg = graph2_new
    /\ tgcall = [op |-> "new", args |-> <<>>, ret |-> Ok(Unit),
                 pre |-> graph2_new]
    /\ tgcalls = 0
    /\ db = Database_new
    /\ dbcall = [op |-> "new", args |-> <<>>, ret |-> Ok(Unit),
                 pre |-> Database_new]
    /\ dbcalls = 0

\* A call that has to create an element is made only when there is room.
UseAtom(atom, slots, calls) ==
    /\ Running(calls)
    /\ ~get_atom_index(graph, atom).ok => CanInsert(slots)
    /\ Commit(use_atom(graph, atom), "use_atom", <<atom>>)

UseLink(from, to, slots, calls) ==
    /\ Running(calls)
    /\ (valid(graph, from) /\ valid(graph, to)
           /\ ~get_link_index(graph, Link(from, to)).ok)
       => CanInsert(slots)
    /\ Commit(use_link(graph, Link(from, to)), "use_link", <<from, to>>)

CreateAbstract(slots, calls) ==
    /\ Running(calls)
    /\ CanInsert(slots)
    /\ Commit(create_abstract(graph), "create_abstract", <<>>)

SetDescription(index, text, calls) ==
    /\ Running(calls)
    /\ Commit(set_description(graph, index, text), "set_description",
              <<index, text>>)

RemoveObject(index, calls) ==
    /\ Running(calls)
    /\ Commit(remove_object(graph, index), "remove_object", <<index>>)

GetObject(index, calls) ==
    /\ Running(calls)
    /\ Commit(get_object(graph, index), "get_object", <<index>>)

Objects(calls) ==
    /\ Running(calls)
    /\ Commit(objects_traversal(graph), "objects", <<>>)

\* serde_json::to_string(&graph) followed by serde_json::from_str, as in
\* tests::io; the graph itself is left alone.
RoundTrip ==
    /\ panicked = "none"
    /\ decoded = NotRun
    /\ decoded' = LET r == deserialize(serialize(graph))
                  IN IF r.ret.ok THEN Ok(r.g) ELSE r.ret
    /\ UNCHANGED <<objects, atom_indexes, link_indexes, panicked, call, ncalls>>
    /\ UNCHANGED svvars
    /\ UNCHANGED tgvars
    /\ UNCHANGED dbvars

\* Slot sequences a serialized file may hold: every slot is None or an
\* object with its description; link endpoints range over the slots and one
\* index that is always out of range.
DecodeRecords ==
    {None} \cup
    {[kind |-> "Some", object |-> o, description |-> ""] :
        o \in {ObjectAtom(a) : a \in Atoms} \cup {ObjectAbstract} \cup
              {ObjectLink(Link(from, to)) :
                  from \in 0 .. DecodeLen, to \in 0 .. DecodeLen}}

DecodeInputs ==
    UNION {[1 .. n -> DecodeRecords] : n \in 0 .. DecodeLen}

\* serde_json::from_str on a file, in a program that starts with it: the
\* graph is the decoded one, or none when the decode fails.
Deserialize(records) ==
    /\ panicked = "none"
    /\ call.op = "new"
    /\ LET r == deserialize(records) IN
       /\ objects' = IF r.ret.ok THEN r.g.objects ELSE objects
       /\ atom_indexes' = IF r.ret.ok THEN r.g.atom_indexes ELSE atom_indexes
       /\ link_indexes' = IF r.ret.ok THEN r.g.link_indexes ELSE link_indexes
       /\ panicked' = r.g.panic
       /\ call' = [op |-> "deserialize", args |-> <<records>>, ret |-> r.ret,
                   pre |-> graph]
    /\ ncalls' = ncalls + 1
    /\ decoded' = NotRun
    /\ UNCHANGED svvars
    /\ UNCHANGED tgvars
    /\ UNCHANGED dbvars

\* The SlotVec is usable, and its call budget is not used up.
SvRunning(calls) == sv.panic = "none" /\ Len(svtrace) < calls

SvCommit(r, op, arg) ==
    /\ sv' = r.sv
    /\ svtrace' = Append(svtrace,
                         [op |-> op, arg |-> arg, ret |-> r.ret,
                          len |-> SlotVec_len(r.sv),
                          nb_slots |-> nb_slots(r.sv)])
    /\ svget' = NotRun
    /\ UNCHANGED gvars
    /\ UNCHANGED tgvars
    /\ UNCHANGED dbvars

\* An insert is made only when it fits: a slot is free or the Vec may grow.
SvInsert(value, slots, calls) ==
    /\ SvRunning(calls)
    /\ sv.next_unused_slot_id # None \/ nb_slots(sv) < slots
    /\ SvCommit(SlotVec_insert(sv, value), "insert", value)

\* The caller may supply any slot, and the first index out of bounds.
SvRemove(index, calls) ==
    /\ SvRunning(calls)
    /\ index \in 0 .. nb_slots(sv)
    /\ SvCommit(SlotVec_remove(sv, index), "remove", index)

SvLookup(r, op, index) ==
    /\ sv.panic = "none"
    /\ svget = NotRun
    /\ index \in 0 .. nb_slots(sv)
    /\ sv' = r.sv
    /\ svget' = [op |-> op, arg |-> index, ret |-> r.ret]
    /\ UNCHANGED svtrace
    /\ UNCHANGED gvars
    /\ UNCHANGED tgvars
    /\ UNCHANGED dbvars

SvGet(index) == SvLookup(SlotVec_get(sv, index), "get", index)

SvGetMut(index) == SvLookup(SlotVec_get_mut(sv, index), "get_mut", index)

\* The tag-augmented graph is usable, and its call budget is not used up.
TgRunning(calls) == tg.panic = "none" /\ tgcalls < calls

TgCommit(r, op, args) ==
    /\ tg' = r.g
    /\ tgcall' = [op |-> op, args |-> args, ret |-> r.ret, pre |-> tg]
    /\ tgcalls' = tgcalls + 1
    /\ UNCHANGED gvars
    /\ UNCHANGED svvars
    /\ UNCHANGED dbvars

\* A call that has to create an element is made only when there is room.
CreateObject(slots, calls) ==
    /\ TgRunning(calls)
    /\ graph2_slot_insert_index(tg.objects) < slots
    /\ TgCommit(graph2_create_object(tg), "create_object", <<>>)

InsertAtom(atom, slots, calls) ==
    /\ TgRunning(calls)
    /\ ~graph2_index_of_atom(tg, atom).ok
          => graph2_slot_insert_index(tg.atoms) < slots
    /\ TgCommit(graph2_insert_atom(tg, atom), "insert_atom", <<atom>>)

\* The caller may supply the index of any slot of the vector, and the first
\* index that is out of bounds.
InsertLink(from, to, slots, calls) ==
    /\ TgRunning(calls)
    /\ from \in 0 .. Len(tg.objects)
    /\ to \in 0 .. Len(tg.objects)
    /\ (/\ graph2_slot_valid(tg.objects, from)
        /\ graph2_slot_valid(tg.objects, to)
        /\ ~graph2_index_of_link(tg, Link(from, to)).ok)
       => graph2_slot_insert_index(tg.links) < slots
    /\ TgCommit(graph2_insert_link(tg, Link(from, to)), "insert_link",
                <<Link(from, to)>>)

InsertTag(source, kind, index, slots, calls) ==
    /\ TgRunning(calls)
    /\ source \in 0 .. Len(tg.atoms)
    /\ index \in 0 .. Len(tg[graph2_target_field(TagTargetIndex(kind, index))])
    /\ (/\ graph2_valid_tag(tg, Tag(source, TagTargetIndex(kind, index)))
        /\ ~graph2_index_of_tag(tg, Tag(source, TagTargetIndex(kind, index))).ok)
       => graph2_slot_insert_index(tg.tags) < slots
    /\ TgCommit(graph2_insert_tag(tg, Tag(source, TagTargetIndex(kind, index))),
                "insert_tag", <<Tag(source, TagTargetIndex(kind, index))>>)

DbCommit(r, op, args, calls) ==
    /\ dbcalls < calls
    /\ db' = r.db
    /\ dbcall' = [op |-> op, args |-> args, ret |-> r.ret, pre |-> db]
    /\ dbcalls' = dbcalls + 1
    /\ UNCHANGED gvars
    /\ UNCHANGED svvars
    /\ UNCHANGED tgvars

\* A call that has to create an element is made only when there is room.
CreateAbstractElement(slots, calls) ==
    /\ relations_insert_index(db.elements) < slots
    /\ DbCommit(create_abstract_element(db), "create_abstract_element", <<>>,
                calls)

DbInsertAtom(atom, slots, calls) ==
    /\ ~index_of_atom(db, atom).ok
          => relations_insert_index(db.elements) < slots
    /\ DbCommit(relations_insert_atom(db, atom), "insert_atom", <<atom>>, calls)

\* The caller may supply the index of any slot, and the first index that is
\* out of bounds; the complement may be absent.
InsertRelation(relation, slots, calls) ==
    /\ relation.subject \in 0 .. Len(db.elements)
    /\ relation.descriptor \in 0 .. Len(db.elements)
    /\ relation.complement # None
          => relation.complement.val \in 0 .. Len(db.elements)
    /\ (all_indexes_valid(db, relation)
           /\ ~index_of_relation(db, relation).ok)
       => relations_insert_index(db.elements) < slots
    /\ DbCommit(insert_relation(db, relation), "insert_relation",
                <<relation>>, calls)

\* The relations a caller may build over the indexes 0 .. slots.
Relations(slots) ==
    {Relation(s, d, c) :
        s \in 0 .. slots, d \in 0 .. slots,
        c \in {None} \cup {Some(i) : i \in 0 .. slots}}

Next ==
    \/ \E atom \in Atoms : UseAtom(atom, MaxSlots, MaxCalls)
    \/ \E from \in Indexes, to \in Indexes :
          UseLink(from, to, MaxSlots, MaxCalls)
    \/ CreateAbstract(MaxSlots, MaxCalls)
    \/ \E index \in Indexes, text \in Descriptions :
          SetDescription(index, text, MaxCalls)
    \/ \E index \in Indexes : RemoveObject(index, MaxCalls)
    \/ RoundTrip

Spec == Init /\ [][Next]_vars

NextWide ==
    \/ \E atom \in Atoms : UseAtom(atom, WideSlots, WideCalls)
    \/ \E from \in Indexes, to \in Indexes :
          UseLink(from, to, WideSlots, WideCalls)
    \/ CreateAbstract(WideSlots, WideCalls)
    \/ \E index \in Indexes, text \in Descriptions :
          SetDescription(index, text, WideCalls)
    \/ \E index \in Indexes : RemoveObject(index, WideCalls)
    \/ RoundTrip

SpecWide == Init /\ [][NextWide]_vars

NextRemoval ==
    \/ \E atom \in Atoms : UseAtom(atom, RemovalSlots, RemovalCalls)
    \/ \E from \in Indexes, to \in Indexes :
          UseLink(from, to, RemovalSlots, RemovalCalls)
    \/ CreateAbstract(RemovalSlots, RemovalCalls)
    \/ \E index \in Indexes : RemoveObject(index, RemovalCalls)

SpecRemoval == Init /\ [][NextRemoval]_vars

NextDecode == \E records \in DecodeInputs : Deserialize(records)

SpecDecode == Init /\ [][NextDecode]_vars

NextSlotVec ==
    \/ \E value \in SvValues : SvInsert(value, SvSlots, SvCalls)
    \/ \E index \in 0 .. SvSlots : SvRemove(index, SvCalls)

SpecSlotVec == Init /\ [][NextSlotVec]_vars

NextSlotLookup ==
    \/ \E value \in SvValues : SvInsert(value, LookupSlots, LookupCalls)
    \/ \E index \in 0 .. LookupSlots : SvRemove(index, LookupCalls)
    \/ \E index \in 0 .. LookupSlots : SvGet(index)
    \/ \E index \in 0 .. LookupSlots : SvGetMut(index)

SpecSlotLookup == Init /\ [][NextSlotLookup]_vars

\* A program that works on a Graph, or one that works on a SlotVec.
NextReuse ==
    \/ /\ svtrace = <<>>
       /\ \/ \E atom \in Atoms : UseAtom(atom, ReuseSlots, ReuseCalls)
          \/ \E from \in Indexes, to \in Indexes :
                UseLink(from, to, ReuseSlots, ReuseCalls)
          \/ CreateAbstract(ReuseSlots, ReuseCalls)
          \/ \E index \in Indexes : RemoveObject(index, ReuseCalls)
    \/ /\ ncalls = 0
       /\ \/ \E value \in SvValues : SvInsert(value, ReuseSlots, ReuseCalls)
          \/ \E index \in 0 .. ReuseSlots : SvRemove(index, ReuseCalls)

SpecReuse == Init /\ [][NextReuse]_vars

NextFacade ==
    \/ \E atom \in Atoms : UseAtom(atom, FacadeSlots, FacadeCalls)
    \/ \E from \in Indexes, to \in Indexes :
          UseLink(from, to, FacadeSlots, FacadeCalls)
    \/ CreateAbstract(FacadeSlots, FacadeCalls)
    \/ \E index \in Indexes, text \in Descriptions :
          SetDescription(index, text, FacadeCalls)
    \/ \E index \in Indexes : RemoveObject(index, FacadeCalls)
    \/ \E index \in Indexes : GetObject(index, FacadeCalls)

SpecFacade == Init /\ [][NextFacade]_vars

NextTraversal ==
    \/ \E atom \in Atoms : UseAtom(atom, TraversalSlots, TraversalCalls)
    \/ \E from \in Indexes, to \in Indexes :
          UseLink(from, to, TraversalSlots, TraversalCalls)
    \/ CreateAbstract(TraversalSlots, TraversalCalls)
    \/ \E index \in Indexes, text \in Descriptions :
          SetDescription(index, text, TraversalCalls)
    \/ \E index \in Indexes : RemoveObject(index, TraversalCalls)
    \/ Objects(TraversalCalls)

SpecTraversal == Init /\ [][NextTraversal]_vars

NextTags ==
    \/ CreateObject(TagSlots, TagCalls)
    \/ \E atom \in Atoms : InsertAtom(atom, TagSlots, TagCalls)
    \/ \E from \in 0 .. TagSlots, to \in 0 .. TagSlots :
          InsertLink(from, to, TagSlots, TagCalls)
    \/ \E source \in 0 .. TagSlots, kind \in {"Object", "Link", "Tag"},
          index \in 0 .. TagSlots :
          InsertTag(source, kind, index, TagSlots, TagCalls)

SpecTags == Init /\ [][NextTags]_vars

NextRelations ==
    \/ CreateAbstractElement(RelSlots, RelCalls)
    \/ \E atom \in Atoms : DbInsertAtom(atom, RelSlots, RelCalls)
    \/ \E relation \in Relations(RelSlots) :
          InsertRelation(relation, RelSlots, RelCalls)

SpecRelations == Init /\ [][NextRelations]_vars

\* The three stores that pick the slot of a new element by a scan from
\* index 0, each used on its own.
NextSlotChoice ==
    \/ /\ tgcalls = 0 /\ dbcalls = 0
       /\ \/ \E atom \in Atoms : UseAtom(atom, RemovalSlots, RemovalCalls)
          \/ \E from \in Indexes, to \in Indexes :
                UseLink(from, to, RemovalSlots, RemovalCalls)
          \/ CreateAbstract(RemovalSlots, RemovalCalls)
          \/ \E index \in Indexes : RemoveObject(index, RemovalCalls)
    \/ /\ ncalls = 0 /\ dbcalls = 0
       /\ \/ CreateObject(TagSlots, TagCalls)
          \/ \E atom \in Atoms : InsertAtom(atom, TagSlots, TagCalls)
          \/ \E from \in 0 .. TagSlots, to \in 0 .. TagSlots :
                InsertLink(from, to, TagSlots, TagCalls)
          \/ \E source \in 0 .. TagSlots, kind \in {"Object", "Link", "Tag"},
                index \in 0 .. TagSlots :
                InsertTag(source, kind, index, TagSlots, TagCalls)
    \/ /\ ncalls = 0 /\ tgcalls = 0
       /\ \/ CreateAbstractElement(RelSlots, RelCalls)
          \/ \E atom \in Atoms : DbInsertAtom(atom, RelSlots, RelCalls)
          \/ \E relation \in Relations(RelSlots) :
                InsertRelation(relation, RelSlots, RelCalls)

SpecSlotChoice == Init /\ [][NextSlotChoice]_vars

(***************************************************************************)
(* Vocabulary of the properties.                                           *)
(***************************************************************************)
Range(seq) == {seq[k] : k \in 1 .. Len(seq)}

Live(g) == {i \in 0 .. Len(g.objects) - 1 : valid(g, i)}
LiveLinks(g) == {i \in Live(g) : is_link(g.objects[i + 1].object)}
LiveAtoms(g) == {i \in Live(g) : is_atom(g.objects[i + 1].object)}
ObjectAt(g, i) == g.objects[i + 1].object
LinkAt(g, i) == g.objects[i + 1].object.link

\* The graph was left as it was by the last call.
GraphUnchanged ==
    /\ objects = call.pre.objects
    /\ atom_indexes = call.pre.atom_indexes
    /\ link_indexes = call.pre.link_indexes

\* C1: removal guard, any element kind: remove_object on a live element whose
\* in_links or out_links is not empty returns CannotRemoveLinked.
C1_RemovalGuardAnyKind ==
    (/\ call.op = "remove_object"
     /\ valid(call.pre, call.args[1])
     /\ \/ call.pre.objects[call.args[1] + 1].in_links # <<>>
        \/ call.pre.objects[call.args[1] + 1].out_links # <<>>)
    => call.ret = CannotRemoveLinked

\* C2: no dangling references: the from and to of every live Link designate
\* occupied slots.
C2_NoDanglingReference ==
    panicked = "none" =>
        \A i \in LiveLinks(graph) :
            valid(graph, LinkAt(graph, i).from)
            /\ valid(graph, LinkAt(graph, i).to)

\* C3: back-link exactness: for every live slot s, in_links holds exactly the
\* live Links whose to is s and out_links exactly the live Links whose from
\* is s.
C3_BackLinksExact ==
    panicked = "none" =>
        \A s \in Live(graph) :
            /\ Range(objects[s + 1].in_links) =
                   {i \in LiveLinks(graph) : LinkAt(graph, i).to = s}
            /\ Range(objects[s + 1].out_links) =
                   {i \in LiveLinks(graph) : LinkAt(graph, i).from = s}

\* C4: the uniqueness maps are exactly the live atoms and links: atom_indexes
\* maps v to i iff slot i is live and holds Atom(v), link_indexes maps l to i
\* iff slot i is live and holds Link l; no two live slots hold equal atoms or
\* equal links; the assert_eq! of register_atom/register_link never fires.
C4_IndexesInSync ==
    /\ \A v \in DOMAIN atom_indexes :
          /\ valid(graph, atom_indexes[v])
          /\ ObjectAt(graph, atom_indexes[v]) = ObjectAtom(v)
    /\ \A i \in LiveAtoms(graph) :
          /\ ObjectAt(graph, i).atom \in DOMAIN atom_indexes
          /\ atom_indexes[ObjectAt(graph, i).atom] = i
    /\ \A l \in DOMAIN link_indexes :
          /\ valid(graph, link_indexes[l])
          /\ ObjectAt(graph, link_indexes[l]) = ObjectLink(l)
    /\ \A i \in LiveLinks(graph) :
          /\ LinkAt(graph, i) \in DOMAIN link_indexes
          /\ link_indexes[LinkAt(graph, i)] = i
    /\ \A i \in Live(graph), j \in Live(graph) :
          (i # j /\ ~is_abstract(ObjectAt(graph, i)))
              => ObjectAt(graph, i) # ObjectAt(graph, j)
    /\ panicked # "assert_eq failed"

\* A freed slot was reused by an insertion while both maps hold entries.
C4_Witness ==
    /\ call.op \in {"use_atom", "use_link"}
    /\ call.ret.ok
    /\ call.ret.val < Len(call.pre.objects)
    /\ ~valid(call.pre, call.ret.val)
    /\ DOMAIN atom_indexes # {}
    /\ DOMAIN link_indexes # {}

\* C5: idempotent atom dedup: use_atom(a) called twice, a not in the store
\* before, returns the same Index both times and the number of live elements
\* grows by exactly one across both calls; the second call changes nothing.
C5_AtomDedupIdempotent ==
    [][(/\ ncalls' = ncalls + 1
        /\ call.op = "use_atom"
        /\ call'.op = "use_atom"
        /\ call'.args = call.args
        /\ ~get_atom_index(call.pre, call.args[1]).ok)
       => (/\ call.ret.ok
           /\ call'.ret = call.ret
           /\ LiveCount(objects') = LiveCount(call.pre.objects) + 1
           /\ objects' = objects
           /\ atom_indexes' = atom_indexes
           /\ link_indexes' = link_indexes)]_vars

\* use_atom was called on a value the store already held.
C5_Witness ==
    /\ call.op = "use_atom"
    /\ ncalls >= 2
    /\ get_atom_index(call.pre, call.args[1]).ok
    /\ call.ret = get_atom_index(call.pre, call.args[1])

\* C6: link insertion is idempotent: for live x, y, use_link(Link(x,y)) called
\* twice succeeds both times with the same Index, and the second call
\* allocates no slot and adds no entry to any out_links or in_links.
C6_LinkInsertIdempotent ==
    [][(/\ ncalls' = ncalls + 1
        /\ call.op = "use_link"
        /\ call'.op = "use_link"
        /\ call'.args = call.args
        /\ valid(call.pre, call.args[1])
        /\ valid(call.pre, call.args[2]))
       => (/\ call.ret.ok
           /\ call'.ret = call.ret
           /\ objects' = objects
           /\ atom_indexes' = atom_indexes
           /\ link_indexes' = link_indexes)]_vars

\* use_link was called on a link the store already held.
C6_Witness ==
    /\ call.op = "use_link"
    /\ call.ret.ok
    /\ get_link_index(call.pre, Link(call.args[1], call.args[2])) = call.ret
    /\ Range(objects[call.args[1] + 1].out_links) # {}

\* C7 as stated: for all live x, y, use_link(x,y) and use_link(y,x) return
\* different Indices.
C7_ReverseLinkDiffers_Stated ==
    [][(/\ ncalls' = ncalls + 1
        /\ call.op = "use_link"
        /\ call'.op = "use_link"
        /\ call'.args = <<call.args[2], call.args[1]>>
        /\ valid(call.pre, call.args[1])
        /\ valid(call.pre, call.args[2]))
       => (/\ call.ret.ok
           /\ call'.ret.ok
           /\ call'.ret.val # call.ret.val)]_vars

\* C7, amended: for all live x, y with x # y, use_link(x,y) and use_link(y,x)
\* return different Indices.
C7_ReverseLinkDiffers ==
    [][(/\ ncalls' = ncalls + 1
        /\ call.op = "use_link"
        /\ call'.op = "use_link"
        /\ call'.args = <<call.args[2], call.args[1]>>
        /\ call.args[1] # call.args[2]
        /\ valid(call.pre, call.args[1])
        /\ valid(call.pre, call.args[2]))
       => (/\ call.ret.ok
           /\ call'.ret.ok
           /\ call'.ret.val # call.ret.val)]_vars

\* use_link(x,y) created a link while the link (y,x) was in the store.
C7_Witness ==
    /\ call.op = "use_link"
    /\ call.ret.ok
    /\ call.args[1] # call.args[2]
    /\ ~get_link_index(call.pre, Link(call.args[1], call.args[2])).ok
    /\ get_link_index(call.pre, Link(call.args[2], call.args[1])).ok
    /\ link_indexes[Link(call.args[2], call.args[1])] # call.ret.val

\* C8: invalid endpoint rejection: use_link(Link(x,y)) with x or y not live
\* returns InvalidIndex and leaves slots, maps and back-links unchanged.
C8_InvalidEndpointRejected ==
    (/\ call.op = "use_link"
     /\ ~(valid(call.pre, call.args[1]) /\ valid(call.pre, call.args[2])))
    => (/\ call.ret = InvalidIndex
        /\ GraphUnchanged
        /\ panicked = "none")

\* use_link was called from a live element to an emptied slot.
C8_Witness ==
    /\ call.op = "use_link"
    /\ call.ret = InvalidIndex
    /\ valid(call.pre, call.args[1])
    /\ call.args[2] < Len(call.pre.objects)
    /\ ~valid(call.pre, call.args[2])

\* Element i of g is the endpoint of some live link.
Referenced(g, i) ==
    \E k \in LiveLinks(g) : LinkAt(g, k).from = i \/ LinkAt(g, k).to = i

\* Element i of g is live, is no link, and no live link points at it.
Leaf(g, i) ==
    /\ valid(g, i)
    /\ ~is_link(ObjectAt(g, i))
    /\ ~Referenced(g, i)

\* The graph holds a = use_atom(..), b = create_abstract(), l = use_link(a,b)
\* and nothing else references a, b or l.
Triple(g, a, b, l) ==
    /\ valid(g, a) /\ valid(g, b) /\ valid(g, l)
    /\ is_atom(ObjectAt(g, a))
    /\ is_abstract(ObjectAt(g, b))
    /\ ObjectAt(g, l) = ObjectLink(Link(a, b))
    /\ \A k \in LiveLinks(g) \ {l} :
          {LinkAt(g, k).from, LinkAt(g, k).to} \cap {a, b, l} = {}
    /\ g.objects[a + 1].out_links = <<l>> /\ g.objects[a + 1].in_links = <<>>
    /\ g.objects[b + 1].in_links = <<l>> /\ g.objects[b + 1].out_links = <<>>
    /\ g.objects[l + 1].in_links = <<>> /\ g.objects[l + 1].out_links = <<>>

\* C9: bottom-up removal: with a = use_atom("x"), b = create_abstract(),
\* l = use_link(a,b) and nothing else referencing them, remove_object(l)
\* succeeds and leaves a and b unreferenced; removing an unreferenced atom or
\* abstract then succeeds and keeps every other element as it was, so a and b
\* can be removed in either order; the removal of the last element leaves no
\* live element and empty atom and link maps.
C9_BottomUpRemoval ==
    call.op = "remove_object" =>
        /\ \A a \in Live(call.pre), b \in Live(call.pre) :
              Triple(call.pre, a, b, call.args[1]) =>
                  /\ call.ret = Ok(Unit)
                  /\ ~valid(graph, call.args[1])
                  /\ Leaf(graph, a) /\ Leaf(graph, b)
                  /\ objects[a + 1].out_links = <<>>
                  /\ objects[b + 1].in_links = <<>>
                  /\ Link(a, b) \notin DOMAIN link_indexes
        /\ Leaf(call.pre, call.args[1]) =>
              /\ call.ret = Ok(Unit)
              /\ ~valid(graph, call.args[1])
              /\ \A j \in Live(call.pre) \ {call.args[1]} :
                    objects[j + 1] = call.pre.objects[j + 1]
              /\ LiveCount(call.pre.objects) = 1 =>
                    /\ LiveCount(objects) = 0
                    /\ atom_indexes = EmptyMap
                    /\ link_indexes = EmptyMap

\* remove_object(2) was called on atom "x" at 0, abstract at 1, link (0,1)
\* at 2.
C9_Witness ==
    /\ call.op = "remove_object"
    /\ call.args = <<2>>
    /\ call.ret.ok
    /\ Len(call.pre.objects) = 3
    /\ Triple(call.pre, 0, 1, 2)
    /\ ObjectAt(call.pre, 0) = ObjectAtom("x")

\* C10: round trip of primary data: deserializing the serialized graph
\* succeeds and yields the same slot count, the same occupied/empty status at
\* every index, and the same Object and description at every occupied index.
C10_RoundTripPrimaryData ==
    decoded # NotRun =>
        /\ decoded.ok
        /\ Len(decoded.val.objects) = Len(objects)
        /\ \A i \in 1 .. Len(objects) :
              /\ is_some(decoded.val.objects[i]) = is_some(objects[i])
              /\ is_some(objects[i]) =>
                    /\ decoded.val.objects[i].object = objects[i].object
                    /\ decoded.val.objects[i].description =
                           objects[i].description

\* C11: round trip of derived topology: after serialize then a successful
\* deserialize, every surviving element has the same in_links set and the
\* same out_links set as in the original graph.
C11_RoundTripTopology ==
    (decoded # NotRun /\ decoded.ok) =>
        \A i \in Live(graph) :
              /\ Range(decoded.val.objects[i + 1].in_links) =
                     Range(objects[i + 1].in_links)
              /\ Range(decoded.val.objects[i + 1].out_links) =
                     Range(objects[i + 1].out_links)

\* Every link over the slots of the graph, and one out of bounds.
LinksOver(g) ==
    {Link(from, to) : from \in 0 .. Len(g.objects), to \in 0 .. Len(g.objects)}

\* C12: decode rebuilds the uniqueness maps from the primary data: after a
\* successful deserialize, get_atom_index and get_link_index return for every
\* atom value and every link what they return on the original graph, and
\* use_atom/use_link of an existing value on the decoded graph returns the
\* existing Index and creates nothing.
C12_DecodeRebuildsIndexes ==
    (decoded # NotRun /\ decoded.ok) =>
        /\ \A v \in Atoms :
              /\ get_atom_index(decoded.val, v) = get_atom_index(graph, v)
              /\ get_atom_index(graph, v).ok =>
                    use_atom(decoded.val, v) =
                        [g |-> decoded.val, ret |-> get_atom_index(graph, v)]
        /\ \A l \in LinksOver(graph) :
              /\ get_link_index(decoded.val, l) = get_link_index(graph, l)
              /\ get_link_index(graph, l).ok =>
                    use_link(decoded.val, l) =
                        [g |-> decoded.val, ret |-> get_link_index(graph, l)]
        /\ DOMAIN decoded.val.atom_indexes = DOMAIN atom_indexes
        /\ DOMAIN decoded.val.link_indexes = DOMAIN link_indexes

\* A graph with an atom, a link and an emptied slot was decoded.
C12_Witness ==
    /\ decoded # NotRun
    /\ decoded.ok
    /\ DOMAIN atom_indexes # {}
    /\ DOMAIN link_indexes # {}
    /\ \E i \in 1 .. Len(objects) : ~is_some(objects[i])

\* Record i (0-based) of the slot sequence is a link record.
IsLinkRecord(records, i) ==
    is_some(records[i + 1]) /\ is_link(records[i + 1].object)

\* Index j designates an occupied record of the slot sequence.
Occupied(records, j) == j < Len(records) /\ is_some(records[j + 1])

\* The link records of the sequence with an endpoint that is out of range or
\* designates an empty slot, each with the field at fault.
InvalidEndpoints(records) ==
    {<<i, "from">> : i \in {k \in 0 .. Len(records) - 1 :
        IsLinkRecord(records, k)
        /\ ~Occupied(records, records[k + 1].object.link.from)}}
    \cup
    {<<i, "to">> : i \in {k \in 0 .. Len(records) - 1 :
        IsLinkRecord(records, k)
        /\ ~Occupied(records, records[k + 1].object.link.to)}}

\* No two records of the sequence hold equal atoms or equal links.
NoDuplicateRecords(records) ==
    \A i \in 1 .. Len(records), j \in 1 .. Len(records) :
        (i # j /\ is_some(records[i]) /\ is_some(records[j])
              /\ ~is_abstract(records[i].object))
            => records[i].object # records[j].object

\* C13: decode validation: deserializing a slot sequence in which some
\* occupied Link record has a from or to that is out of range or designates
\* an empty slot fails with an error that identifies the offending slot and
\* field, and no Graph value is returned.
C13_DecodeErrorNamesSlotAndField ==
    (call.op = "deserialize" /\ InvalidEndpoints(call.args[1]) # {}) =>
        /\ panicked = "none"
        /\ ~call.ret.ok
        /\ objects = <<>>
        /\ \E e \in InvalidEndpoints(call.args[1]) :
              call.ret.err = <<"invalid link at index", e[1], e[2]>>

\* C14: forward references are legal on decode: a slot sequence whose link
\* records all point at occupied slots, before or after them, and that holds
\* no value twice is accepted; after a successful decode every link record i
\* is in out_links of its from slot and in in_links of its to slot.
C14_ForwardReferencesLegal ==
    call.op = "deserialize" =>
        /\ (InvalidEndpoints(call.args[1]) = {}
              /\ NoDuplicateRecords(call.args[1])) => call.ret.ok
        /\ call.ret.ok =>
              \A i \in 0 .. Len(call.args[1]) - 1 :
                  IsLinkRecord(call.args[1], i) =>
                      /\ i \in Range(objects[LinkAt(graph, i).from + 1].out_links)
                      /\ i \in Range(objects[LinkAt(graph, i).to + 1].in_links)

\* A sequence with a link record pointing at a later slot was decoded.
C14_Witness ==
    /\ call.op = "deserialize"
    /\ call.ret.ok
    /\ \E i \in 0 .. Len(call.args[1]) - 1 :
          /\ IsLinkRecord(call.args[1], i)
          /\ call.args[1][i + 1].object.link.to > i
          /\ i \in Range(objects[call.args[1][i + 1].object.link.to + 1].in_links)

\* The call that has just been made on the graph creates an element: it is
\* create_abstract, or use_atom/use_link of a value that is not present.
CreatesElement ==
    \/ call'.op = "create_abstract"
    \/ call'.op = "use_atom" /\ call'.args[1] \notin DOMAIN atom_indexes
    \/ /\ call'.op = "use_link"
       /\ valid(graph, call'.args[1])
       /\ valid(graph, call'.args[2])
       /\ Link(call'.args[1], call'.args[2]) \notin DOMAIN link_indexes

\* Results of SlotVec::get, get_mut and remove that hold a value.
SomeValues == {Some(v) : v \in SvValues}

\* Entry k of a SlotVec trace is a call that returned: only the last call
\* of a trace may have panicked.
Returned(s, trace, k) == k < Len(trace) \/ s.panic = "none"

\* An insert/remove call is being made on the SlotVec.
SvStep == Len(svtrace') = Len(svtrace) + 1

Last(trace) == trace[Len(trace)]

UsedSlots(s) == {i \in 0 .. nb_slots(s) - 1 : s.slots[i + 1].kind = "Used"}

\* C15: slot reuse: after a successful remove_object(i) on a store without
\* empty slot, the next call that creates an element returns i and the
\* number of slots does not grow; SlotVec::insert right after a successful
\* SlotVec::remove(i) returns i and nb_slots() is unchanged.
C15_SlotReuse ==
    [][/\ (/\ ncalls' = ncalls + 1
           /\ call.op = "remove_object"
           /\ call.ret.ok
           /\ \A k \in 1 .. Len(call.pre.objects) : is_some(call.pre.objects[k])
           /\ CreatesElement)
          => /\ call'.ret = Ok(call.args[1])
             /\ Len(objects') = Len(objects)
       /\ (/\ SvStep
           /\ svtrace # <<>>
           /\ Last(svtrace).op = "remove"
           /\ Last(svtrace).ret \in SomeValues
           /\ Last(svtrace').op = "insert")
          => /\ sv'.panic = "none"
             /\ Last(svtrace').ret = Last(svtrace).arg
             /\ Last(svtrace').nb_slots = Last(svtrace).nb_slots
             /\ nb_slots(sv') = nb_slots(sv)]_vars

\* An element was created in the slot that the store had empty.
C15_Witness ==
    /\ call.op \in {"create_abstract", "use_atom", "use_link"}
    /\ call.ret.ok
    /\ call.ret.val < Len(call.pre.objects)
    /\ ~is_some(call.pre.objects[call.ret.val + 1])
    /\ is_some(objects[call.ret.val + 1])
    /\ Len(objects) = Len(call.pre.objects)
    /\ Len(objects) > 1

\* In the trace, occupied slots i then j are removed by entries k, k + 1 and
\* the inserts that follow return j, then i.
FreedThenReused(s, trace) ==
    \A k \in 1 .. Len(trace) - 2 :
        (/\ trace[k].op = "remove" /\ trace[k].ret \in SomeValues
         /\ trace[k + 1].op = "remove" /\ trace[k + 1].ret \in SomeValues
         /\ trace[k + 2].op = "insert")
        => /\ Returned(s, trace, k + 2)
           /\ trace[k + 2].ret = trace[k + 1].arg
           /\ (k + 3 <= Len(trace) /\ trace[k + 3].op = "insert")
                 => /\ Returned(s, trace, k + 3)
                    /\ trace[k + 3].ret = trace[k].arg

\* C16: most-recently-freed-first: when occupied slots i then j are removed
\* with no insert in between, the next SlotVec::insert returns j and the one
\* after returns i; an insert appends a slot only when the free list is empty
\* (no free-list head, no Unused slot).
C16_MostRecentlyFreedFirst ==
    [][SvStep =>
          /\ FreedThenReused(sv', svtrace')
          /\ (Last(svtrace').op = "insert" /\ nb_slots(sv') > nb_slots(sv))
                => /\ sv.next_unused_slot_id = None
                   /\ UsedSlots(sv) = 0 .. nb_slots(sv) - 1]_vars

\* Two slots were freed and both reused, last freed first.
C16_Witness ==
    \E k \in 1 .. Len(svtrace) - 3 :
        /\ svtrace[k].op = "remove" /\ svtrace[k].ret \in SomeValues
        /\ svtrace[k + 1].op = "remove" /\ svtrace[k + 1].ret \in SomeValues
        /\ svtrace[k].arg # svtrace[k + 1].arg
        /\ svtrace[k + 2].op = "insert"
        /\ svtrace[k + 3].op = "insert"
        /\ svtrace[k + 3].ret = svtrace[k].arg
        /\ sv.panic = "none"

\* len() and nb_slots() before entry k of the trace.
LenBefore(trace, k) == IF k = 1 THEN 0 ELSE trace[k - 1].len
NbSlotsBefore(trace, k) == IF k = 1 THEN 0 ELSE trace[k - 1].nb_slots

\* C17: counters of the slot allocator: after any insert/remove calls len()
\* is the number of Used slots, nb_slots() is the length of the slot array
\* and never decreases, len() <= nb_slots(); an insert raises len() by one
\* and a remove that returns a value lowers it by one.
C17_Counters ==
    /\ SlotVec_len(sv) = Cardinality(UsedSlots(sv))
    /\ nb_slots(sv) = Len(sv.slots)
    /\ SlotVec_len(sv) <= nb_slots(sv)
    /\ \A k \in 1 .. Len(svtrace) :
          /\ svtrace[k].nb_slots >= NbSlotsBefore(svtrace, k)
          /\ svtrace[k].len <= svtrace[k].nb_slots
          /\ (svtrace[k].op = "insert" /\ Returned(sv, svtrace, k))
                => svtrace[k].len = LenBefore(svtrace, k) + 1
          /\ (svtrace[k].op = "remove" /\ svtrace[k].ret \in SomeValues)
                => svtrace[k].len = LenBefore(svtrace, k) - 1
          /\ (svtrace[k].op = "remove" /\ svtrace[k].ret = None)
                => svtrace[k].len = LenBefore(svtrace, k)
    /\ svtrace # <<>> =>
          /\ Last(svtrace).len = SlotVec_len(sv)
          /\ Last(svtrace).nb_slots = nb_slots(sv)

\* Inserts on new and on freed slots and both outcomes of remove happened.
C17_Witness ==
    /\ sv.panic = "none"
    /\ \E k \in 1 .. Len(svtrace) :
          svtrace[k].op = "remove" /\ svtrace[k].ret \in SomeValues
    /\ \E k \in 1 .. Len(svtrace) :
          svtrace[k].op = "remove" /\ svtrace[k].ret = None
    /\ \E k \in 2 .. Len(svtrace) :
          /\ svtrace[k].op = "insert"
          /\ svtrace[k].nb_slots = svtrace[k - 1].nb_slots
    /\ SlotVec_len(sv) < nb_slots(sv)

\* C18: SlotVec::remove(index) on an occupied slot returns the stored value,
\* marks the slot Unused and makes it the head of the free list, in front of
\* the former head; on a slot that is already free it returns None and leaves
\* the slots, the free list and len() unchanged.
C18_Remove ==
    [][(/\ SvStep
        /\ Last(svtrace').op = "remove"
        /\ Last(svtrace').arg < nb_slots(sv))
       => LET index == Last(svtrace').arg IN
          IF sv.slots[index + 1].kind = "Used"
          THEN /\ Last(svtrace').ret = Some(sv.slots[index + 1].value)
               /\ sv'.slots[index + 1] = Unused(sv.next_unused_slot_id)
               /\ sv'.next_unused_slot_id = Some(index)
               /\ sv'.panic = "none"
               /\ nb_slots(sv') = nb_slots(sv)
               /\ \A i \in 0 .. nb_slots(sv) - 1 :
                     i # index => sv'.slots[i + 1] = sv.slots[i + 1]
          ELSE /\ Last(svtrace').ret = None
               /\ sv' = sv]_vars

\* A slot was removed twice in a row: a value, then None.
C18_Witness ==
    \E k \in 1 .. Len(svtrace) - 1 :
        /\ svtrace[k].op = "remove" /\ svtrace[k].ret \in SomeValues
        /\ svtrace[k + 1].op = "remove" /\ svtrace[k + 1].ret = None
        /\ svtrace[k + 1].arg = svtrace[k].arg
        /\ sv.next_unused_slot_id = Some(svtrace[k].arg)

\* C19: lookup failure is a value: SlotVec::get(index) and get_mut(index)
\* return the stored value when the slot is occupied, and None both when the
\* slot is unoccupied and when index >= nb_slots(); they do not panic.
C19_LookupFailureIsValue ==
    svget # NotRun =>
        /\ sv.panic = "none"
        /\ svget.ret =
              IF svget.arg \in UsedSlots(sv)
              THEN Some(sv.slots[svget.arg + 1].value)
              ELSE None

\* The index is out of the bounds of the slot array of g or designates an
\* empty slot.
OutOfBoundsOrEmpty(g, index) ==
    index >= Len(g.objects) \/ ~is_some(g.objects[index + 1])

\* C20: get_object(index), set_description(index, _) and
\* remove_object(index) return InvalidIndex if and only if index is out of
\* the bounds of the slot array or designates an empty slot; remove_object
\* never answers CannotRemoveLinked for such an index.
C20_InvalidIndexIffInvalid ==
    call.op \in {"get_object", "set_description", "remove_object"} =>
        /\ call.ret = InvalidIndex <=> OutOfBoundsOrEmpty(call.pre, call.args[1])
        /\ call.ret = CannotRemoveLinked =>
              ~OutOfBoundsOrEmpty(call.pre, call.args[1])

\* get_object was called on an empty slot within the bounds.
C20_Witness ==
    /\ call.op = "get_object"
    /\ call.args[1] < Len(call.pre.objects)
    /\ ~is_some(call.pre.objects[call.args[1] + 1])
    /\ call.ret = InvalidIndex

\* C21: no panic on caller-supplied indices: in every state reached through
\* the mutators, a call to get_object, set_description, use_link or
\* remove_object with any Index (live, empty or out of bounds) returns Ok or
\* an Error value; it does not abort.
C21_NoPanicOnIndex ==
    call.op \in {"get_object", "set_description", "use_link", "remove_object"}
        => /\ panicked = "none"
           /\ call.ret # Panicked

\* Index i is in no back-link vector of a live element of g.
NoBackLinkTo(g, i) ==
    \A k \in Live(g) :
        /\ i \notin Range(g.objects[k + 1].in_links)
        /\ i \notin Range(g.objects[k + 1].out_links)

\* C22: all-or-nothing remove: a remove_object call that returns InvalidIndex
\* or CannotRemoveLinked leaves the whole store unchanged; a remove_object
\* call never leaves the slot emptied with the uniqueness maps or the
\* neighbours' back-link vectors not updated.
C22_AllOrNothingRemove ==
    call.op = "remove_object" =>
        /\ call.ret \in {InvalidIndex, CannotRemoveLinked} => GraphUnchanged
        /\ (valid(call.pre, call.args[1]) /\ ~valid(graph, call.args[1])) =>
              LET object == ObjectAt(call.pre, call.args[1]) IN
              /\ is_atom(object) => object.atom \notin DOMAIN atom_indexes
              /\ is_link(object) =>
                    /\ object.link \notin DOMAIN link_indexes
                    /\ NoBackLinkTo(graph, call.args[1])

\* C23: leaves can always be removed: remove_object on a live element whose
\* in_links and out_links are both empty returns Ok, whatever its kind, and
\* afterwards the slot is empty.
C23_LeafRemovable ==
    (/\ call.op = "remove_object"
     /\ valid(call.pre, call.args[1])
     /\ call.pre.objects[call.args[1] + 1].in_links = <<>>
     /\ call.pre.objects[call.args[1] + 1].out_links = <<>>)
    => /\ call.ret = Ok(Unit)
       /\ ~valid(graph, call.args[1])

Mutators ==
    {"use_atom", "use_link", "create_abstract", "set_description",
     "remove_object"}

\* C24: index stability: for every mutator and every index k that is live
\* before and after the call, slot k holds the same Object value before and
\* after; a removal empties no slot but its own.
C24_IndexStability ==
    call.op \in Mutators =>
        /\ \A k \in Live(call.pre) \cap Live(graph) :
              ObjectAt(graph, k) = ObjectAt(call.pre, k)
        /\ Live(call.pre) \ Live(graph) \subseteq
              IF call.op = "remove_object" THEN {call.args[1]} ELSE {}

\* An element was removed below a live one, which stayed in its slot.
C24_Witness ==
    /\ call.op = "remove_object"
    /\ call.ret.ok
    /\ \E k \in Live(graph) :
          /\ k > call.args[1]
          /\ ObjectAt(graph, k) = ObjectAt(call.pre, k)

\* C25: an index is never reused while its element is live: every call that
\* creates an element (create_abstract, use_atom/use_link on a miss,
\* SlotVec::insert) writes into a slot that was empty or is appended, leaves
\* every occupied slot's value in place, and returns an index that was not
\* live before the call.
C25_NoReuseWhileLive ==
    [][/\ (ncalls' = ncalls + 1 /\ CreatesElement)
          => /\ call'.ret.ok
             /\ call'.ret.val \notin Live(graph)
             /\ call'.ret.val <= Len(objects)
             /\ valid(graph', call'.ret.val)
             /\ \A k \in Live(graph) :
                   /\ valid(graph', k)
                   /\ ObjectAt(graph', k) = ObjectAt(graph, k)
       /\ (SvStep /\ Last(svtrace').op = "insert")
          => /\ sv'.panic = "none"
             /\ Last(svtrace').ret \notin UsedSlots(sv)
             /\ Last(svtrace').ret <= nb_slots(sv)
             /\ Last(svtrace').ret \in UsedSlots(sv')
             /\ \A i \in UsedSlots(sv) : sv'.slots[i + 1] = sv.slots[i + 1]]_vars

\* A SlotVec::insert took a freed slot while another slot was occupied.
C25_Witness ==
    /\ Len(svtrace) >= 2
    /\ sv.panic = "none"
    /\ Last(svtrace).op = "insert"
    /\ Last(svtrace).ret < svtrace[Len(svtrace) - 1].nb_slots
    /\ Last(svtrace).len >= 2

Abstracts(g) == {k \in Live(g) : is_abstract(ObjectAt(g, k))}

\* C26: entities are never deduplicated: every create_abstract call creates
\* an element, raises the live count by exactly one, returns an index that
\* differs from the index of every Abstract live before, and leaves
\* atom_indexes and link_indexes unchanged.
C26_AbstractAlwaysNew ==
    call.op = "create_abstract" =>
        /\ call.ret.ok
        /\ LiveCount(objects) = LiveCount(call.pre.objects) + 1
        /\ call.ret.val \notin Abstracts(call.pre)
        /\ call.ret.val \notin Live(call.pre)
        /\ call.ret.val \in Abstracts(graph)
        /\ atom_indexes = call.pre.atom_indexes
        /\ link_indexes = call.pre.link_indexes

\* create_abstract was called on a graph that held an Abstract already.
C26_Witness ==
    /\ call.op = "create_abstract"
    /\ call.ret.ok
    /\ Abstracts(call.pre) # {}
    /\ Cardinality(Abstracts(graph)) >= 2

\* The items of a traversal of g are the live elements of g, each once, in
\* strictly ascending Index order, and the iterator made at most one step
\* per slot.
ExactTraversal(g, traversal) ==
    LET items == traversal.items IN
    /\ {items[n].index : n \in 1 .. Len(items)} = Live(g)
    /\ Len(items) = Cardinality(Live(g))
    /\ \A n \in 1 .. Len(items) - 1 : items[n].index < items[n + 1].index
    /\ \A n \in 1 .. Len(items) :
          items[n].object_data = g.objects[items[n].index + 1]
    /\ Len(items) <= Len(g.objects)
    /\ traversal.next_index <= Len(g.objects)

\* C27: objects() yields exactly the live elements, each once, in strictly
\* ascending Index order, skipping empty slots; two traversals with no
\* mutation in between yield the same sequence; the traversal ends after at
\* most slot-count steps.
C27_OrderedTraversal ==
    [][(ncalls' = ncalls + 1 /\ call'.op = "objects")
       => /\ call'.ret.ok
          /\ ExactTraversal(graph, call'.ret.val)
          /\ graph' = graph
          /\ call.op = "objects" => call'.ret = call.ret]_vars

\* A graph with an empty slot below a live element was traversed.
C27_Witness ==
    /\ call.op = "objects"
    /\ call.ret.ok
    /\ Len(call.ret.val.items) >= 1
    /\ \E i \in 0 .. Len(objects) - 1 :
          /\ ~valid(graph, i)
          /\ \E n \in 1 .. Len(call.ret.val.items) :
                call.ret.val.items[n].index > i
    /\ call.pre = graph

\* C28: set_description is orthogonal to topology and dedup: on a live
\* index it replaces that element's description only and leaves every
\* Object value, every in_links/out_links, both uniqueness maps and the slot
\* count unchanged, so the results of use_atom and use_link are the same
\* before and after; on a non-live index it returns InvalidIndex and changes
\* nothing.
C28_DescriptionOrthogonal ==
    call.op = "set_description" =>
        IF valid(call.pre, call.args[1])
        THEN /\ call.ret = Ok(Unit)
             /\ objects = [call.pre.objects EXCEPT
                              ![call.args[1] + 1].description = call.args[2]]
             /\ atom_indexes = call.pre.atom_indexes
             /\ link_indexes = call.pre.link_indexes
             /\ Len(objects) = Len(call.pre.objects)
             /\ \A v \in Atoms :
                   use_atom(graph, v).ret = use_atom(call.pre, v).ret
             /\ \A l \in LinksOver(graph) :
                   use_link(graph, l).ret = use_link(call.pre, l).ret
        ELSE /\ call.ret = InvalidIndex
             /\ GraphUnchanged

\* The description of an element with back-links was replaced.
C28_Witness ==
    /\ call.op = "set_description"
    /\ call.ret.ok
    /\ objects[call.args[1] + 1].description = call.args[2]
    /\ call.pre.objects[call.args[1] + 1].description # call.args[2]
    /\ objects[call.args[1] + 1].in_links # <<>>
    /\ DOMAIN link_indexes # {}

\* Slot i of a slot vector of the tag-augmented graph is occupied.
LiveSlot(inner, i) == i < Len(inner) /\ inner[i + 1].kind = "Some"

LiveSlots(inner) == {i \in 0 .. Len(inner) - 1 : LiveSlot(inner, i)}

\* The slot vector of g that holds the elements of the kind of a tag target.
TargetVector(g, target) ==
    IF target.kind = "Object" THEN g.objects
    ELSE IF target.kind = "Link" THEN g.links
    ELSE g.tags

\* C29: tag insertion validates both ends: insert_tag(Tag{source, target})
\* returns InvalidIndex and leaves the four slot vectors, all back-link sets
\* and the three index maps unchanged whenever source is not a live atom
\* index or target is not a live index of the slot vector of its kind.
C29_TagEndsValidated ==
    (/\ tgcall.op = "insert_tag"
     /\ \/ ~LiveSlot(tgcall.pre.atoms, tgcall.args[1].source)
        \/ ~LiveSlot(TargetVector(tgcall.pre, tgcall.args[1].target),
                     tgcall.args[1].target.index))
    => /\ tgcall.ret = InvalidIndex
       /\ tg = tgcall.pre

\* A tag with a live source atom and a target that is not live was refused.
C29_Witness ==
    /\ tgcall.op = "insert_tag"
    /\ tgcall.ret = InvalidIndex
    /\ LiveSlot(tgcall.pre.atoms, tgcall.args[1].source)
    /\ tgcall.pre.objects # <<>>
    /\ tg = tgcall.pre

\* The sorted vector `after` is `before` with n added, n occurring once.
AddedOnce(after, before, n) ==
    /\ Cardinality({k \in 1 .. Len(after) : after[k] = n}) = 1
    /\ SelectSeq(after, LAMBDA x : x # n) = before
    /\ \A k \in 1 .. Len(before) : before[k] # n

\* The tag_target sets of the slot vector of some kind: n is added once to
\* the set of the target if it is in this vector, no other set changes.
TagTargetsUpdated(after, before, kind, target, n) ==
    \A k \in LiveSlots(before) :
        /\ LiveSlot(after, k)
        /\ IF target = TagTargetIndex(kind, k)
           THEN AddedOnce(after[k + 1].tag_target, before[k + 1].tag_target, n)
           ELSE after[k + 1].tag_target = before[k + 1].tag_target

\* C30: tag get-or-create: a successful insert_tag for a pair not yet
\* present allocates one tag slot, adds the new TagIndex exactly once to
\* tag_source of the source atom and to tag_target of the targeted element
\* only, and registers it in tag_indexes; a successful insert_tag of a pair
\* that is present returns its TagIndex and changes nothing.
C30_TagGetOrCreate ==
    (tgcall.op = "insert_tag" /\ tgcall.ret.ok) =>
        LET t == tgcall.args[1]
            n == tgcall.ret.val
            pre == tgcall.pre
        IN IF t \in DOMAIN pre.tag_indexes
           THEN n = pre.tag_indexes[t] /\ tg = pre
           ELSE /\ tg.panic = "none"
                /\ LiveSlots(tg.tags) = LiveSlots(pre.tags) \cup {n}
                /\ n \notin LiveSlots(pre.tags)
                /\ tg.tags[n + 1].tag = t
                /\ tg.tags[n + 1].tag_target = <<>>
                /\ \A k \in LiveSlots(pre.tags) :
                      tg.tags[k + 1].tag = pre.tags[k + 1].tag
                /\ Len(tg.atoms) = Len(pre.atoms)
                /\ \A a \in LiveSlots(pre.atoms) :
                      /\ tg.atoms[a + 1].atom = pre.atoms[a + 1].atom
                      /\ IF a = t.source
                         THEN AddedOnce(tg.atoms[a + 1].tag_source,
                                        pre.atoms[a + 1].tag_source, n)
                         ELSE tg.atoms[a + 1].tag_source =
                                  pre.atoms[a + 1].tag_source
                /\ TagTargetsUpdated(tg.objects, pre.objects, "Object",
                                     t.target, n)
                /\ TagTargetsUpdated(tg.links, pre.links, "Link", t.target, n)
                /\ TagTargetsUpdated(tg.tags, pre.tags, "Tag", t.target, n)
                /\ Len(tg.objects) = Len(pre.objects)
                /\ Len(tg.links) = Len(pre.links)
                /\ tg.tag_indexes = MapInsert(pre.tag_indexes, t, n)
                /\ tg.link_indexes = pre.link_indexes
                /\ tg.atom_indexes = pre.atom_indexes

\* A second tag of the same source atom was created.
C30_Witness ==
    /\ tgcall.op = "insert_tag"
    /\ tgcall.ret.ok
    /\ tgcall.args[1] \notin DOMAIN tgcall.pre.tag_indexes
    /\ Len(tg.atoms[tgcall.args[1].source + 1].tag_source) >= 2
    /\ tgcall.ret.val \in Range(tg.atoms[tgcall.args[1].source + 1].tag_source)

\* The last call was a use_link that created a link.
LinkCreated ==
    /\ call.op = "use_link"
    /\ call.ret.ok
    /\ Link(call.args[1], call.args[2]) \notin DOMAIN call.pre.link_indexes

\* C31: exact effect of a link creation: a use_link(Link(from,to)) call that
\* creates a link at index n occupies exactly one slot n, empty or new
\* before, with Link(from,to), an empty description and empty
\* in_links/out_links, appends n to out_links of slot from and to in_links of
\* slot to, adds (from,to) -> n to link_indexes, and changes nothing else.
C31_LinkCreationEffect ==
    LinkCreated =>
        LET from == call.args[1]
            to == call.args[2]
            n == call.ret.val
            pre == call.pre
        IN /\ panicked = "none"
           /\ n \notin Live(pre)
           /\ n <= Len(pre.objects)
           /\ Len(objects) =
                 IF n < Len(pre.objects) THEN Len(pre.objects)
                 ELSE Len(pre.objects) + 1
           /\ objects[n + 1] =
                 [kind |-> "Some", object |-> ObjectLink(Link(from, to)),
                  description |-> "", in_links |-> <<>>, out_links |-> <<>>]
           /\ \A k \in 0 .. Len(pre.objects) - 1 :
                 k # n =>
                    objects[k + 1] =
                        IF ~valid(pre, k) THEN None
                        ELSE [pre.objects[k + 1] EXCEPT
                                 !.out_links =
                                     IF k = from THEN Append(@, n) ELSE @,
                                 !.in_links =
                                     IF k = to THEN Append(@, n) ELSE @]
           /\ link_indexes = MapInsert(pre.link_indexes, Link(from, to), n)
           /\ atom_indexes = pre.atom_indexes

\* A link between two different elements was created.
C31_Witness ==
    /\ LinkCreated
    /\ call.args[1] # call.args[2]
    /\ call.ret.val \in Range(objects[call.args[1] + 1].out_links)
    /\ call.ret.val \in Range(objects[call.args[2] + 1].in_links)

\* The sequence s without the entries equal to i.
Without(s, i) == SelectSeq(s, LAMBDA x : x # i)

\* C32: exact effect of a successful removal: remove_object(i) returning Ok
\* empties slot i; an Atom's value is no longer in atom_indexes; a
\* Link(from,to)'s pair is no longer in link_indexes and i is no longer in
\* out_links of from nor in in_links of to; every other slot, back-link
\* entry, description and index entry is unchanged.
C32_RemovalEffect ==
    (call.op = "remove_object" /\ call.ret.ok) =>
        LET i == call.args[1]
            pre == call.pre
            object == ObjectAt(pre, i)
        IN /\ valid(pre, i)
           /\ Len(objects) = Len(pre.objects)
           /\ objects[i + 1] = None
           /\ atom_indexes =
                 IF is_atom(object)
                 THEN [a \in DOMAIN pre.atom_indexes \ {object.atom} |->
                          pre.atom_indexes[a]]
                 ELSE pre.atom_indexes
           /\ is_atom(object) => ~get_atom_index(graph, object.atom).ok
           /\ link_indexes =
                 IF is_link(object)
                 THEN [l \in DOMAIN pre.link_indexes \ {object.link} |->
                          pre.link_indexes[l]]
                 ELSE pre.link_indexes
           /\ \A k \in 0 .. Len(pre.objects) - 1 :
                 k # i =>
                    objects[k + 1] =
                        IF ~valid(pre, k) THEN None
                        ELSE [pre.objects[k + 1] EXCEPT
                                 !.out_links =
                                     IF is_link(object) /\ k = object.link.from
                                     THEN Without(@, i) ELSE @,
                                 !.in_links =
                                     IF is_link(object) /\ k = object.link.to
                                     THEN Without(@, i) ELSE @]

\* A link was removed and pulled out of the back-links of its endpoints.
C32_Witness ==
    /\ call.op = "remove_object"
    /\ call.ret.ok
    /\ is_link(ObjectAt(call.pre, call.args[1]))
    /\ call.args[1] \in
          Range(call.pre.objects[LinkAt(call.pre, call.args[1]).from + 1].out_links)
    /\ call.args[1] \notin
          Range(objects[LinkAt(call.pre, call.args[1]).from + 1].out_links)

LiveElements(d) ==
    {i \in 0 .. Len(d.elements) - 1 : d.elements[i + 1].kind = "Some"}

\* Subject, descriptor and the complement, if present, are live in d.
RelationEndsLive(d, r) ==
    /\ r.subject \in LiveElements(d)
    /\ r.descriptor \in LiveElements(d)
    /\ r.complement # None => r.complement.val \in LiveElements(d)

\* C39: relation insertion: insert_relation(subject, descriptor, complement)
\* returns InvalidIndex and leaves the Database unchanged (index_of_relation
\* still None, no slot allocated) if subject, descriptor or a present
\* complement is not a live index; otherwise it is get-or-create: a triple
\* that is present returns its Index and allocates nothing, a new one
\* allocates one slot and is registered under the returned Index.
C39_RelationInsertion ==
    dbcall.op = "insert_relation" =>
        LET r == dbcall.args[1]
            pre == dbcall.pre
        IN IF ~RelationEndsLive(pre, r)
           THEN /\ dbcall.ret = InvalidIndex
                /\ db = pre
                /\ ~index_of_relation(db, r).ok
           ELSE /\ dbcall.ret.ok
                /\ index_of_relation(db, r) = dbcall.ret
                /\ insert_relation(db, r) = [db |-> db, ret |-> dbcall.ret]
                /\ IF r \in DOMAIN pre.index_of_relations
                   THEN /\ dbcall.ret.val = pre.index_of_relations[r]
                        /\ db = pre
                   ELSE /\ dbcall.ret.val \notin LiveElements(pre)
                        /\ LiveElements(db) =
                              LiveElements(pre) \cup {dbcall.ret.val}
                        /\ db.elements[dbcall.ret.val + 1].value =
                              ElementRelation(r)
                        /\ \A i \in LiveElements(pre) :
                              db.elements[i + 1] = pre.elements[i + 1]
                        /\ db.index_of_atoms = pre.index_of_atoms

\* A relation with live subject and descriptor and a complement that is not
\* live was refused.
C39_Witness ==
    /\ dbcall.op = "insert_relation"
    /\ dbcall.ret = InvalidIndex
    /\ dbcall.args[1].subject \in LiveElements(dbcall.pre)
    /\ dbcall.args[1].descriptor \in LiveElements(dbcall.pre)
    /\ dbcall.args[1].complement # None
    /\ DOMAIN db.index_of_relations # {}

\* The empty slots of a vector of optional cells, as 0-based indexes.
FreeSlots(inner) == {i \in 0 .. Len(inner) - 1 : ~is_some(inner[i + 1])}

\* Going from the vector before to the vector after, one element was
\* created, in the lowest empty slot of before or, when before has no empty
\* slot, in a new last slot; n is its index.
LowestFreeChosen(before, after, n) ==
    /\ FreeSlots(after) = FreeSlots(before) \ {n}
    /\ IF FreeSlots(before) # {}
       THEN /\ n \in FreeSlots(before)
            /\ \A j \in FreeSlots(before) : n <= j
            /\ Len(after) = Len(before)
       ELSE /\ n = Len(before)
            /\ Len(after) = Len(before) + 1

\* The slot vector of the tag-augmented graph that a call allocates in.
AllocatedVector(op) ==
    IF op = "create_object" THEN "objects"
    ELSE IF op = "insert_link" THEN "links"
    ELSE IF op = "insert_tag" THEN "tags"
    ELSE "atoms"

\* C34: lowest-free-index-first: Graph::insert_object, and SlotVec::insert
\* of the tag-augmented graph and of the relations Database, place a new
\* element in the lowest-index empty slot and append at index = slot count
\* only when no slot is empty; on a store without removal the k-th created
\* element gets index k-1.
C34_LowestFreeIndex ==
    /\ (/\ call.op \in {"create_abstract", "use_atom", "use_link"}
        /\ call.ret.ok
        /\ call.ret.val \notin Live(call.pre))
       => /\ LowestFreeChosen(call.pre.objects, objects, call.ret.val)
          /\ FreeSlots(call.pre.objects) = {}
                => call.ret.val = LiveCount(call.pre.objects)
    /\ \A f \in {"objects", "links", "tags", "atoms"} :
          /\ FreeSlots(tg[f]) = {}
          /\ Len(tg[f]) # Len(tgcall.pre[f])
                => /\ f = AllocatedVector(tgcall.op)
                   /\ tgcall.ret.ok
                   /\ LowestFreeChosen(tgcall.pre[f], tg[f], tgcall.ret.val)
                   /\ tgcall.ret.val = Len(tg[f]) - 1
    /\ FreeSlots(db.elements) = {}
    /\ Len(db.elements) # Len(dbcall.pre.elements)
          => /\ dbcall.ret.ok
             /\ LowestFreeChosen(dbcall.pre.elements, db.elements,
                                 dbcall.ret.val)
             /\ dbcall.ret.val = Len(db.elements) - 1

\* An element was created in the lower of two empty slots.
C34_Witness ==
    /\ call.op \in {"create_abstract", "use_atom", "use_link"}
    /\ call.ret.ok
    /\ call.ret.val \in FreeSlots(call.pre.objects)
    /\ \E j \in FreeSlots(call.pre.objects) : call.ret.val < j
    /\ is_some(objects[call.ret.val + 1])

\* The slots a slot refers to: from and to of a live Link, nothing otherwise.
Endpoints(g, n) ==
    IF n \in LiveLinks(g)
    THEN {LinkAt(g, n).from, LinkAt(g, n).to}
    ELSE {}

\* The slots reached from the slots of S by following endpoints at most k
\* more times.
RECURSIVE Following(_, _, _)
Following(g, S, k) ==
    IF k = 0
    THEN S
    ELSE Following(g, S \cup UNION {Endpoints(g, m) : m \in S}, k - 1)

\* C35: the reference relation is acyclic: in every reachable state,
\* following from/to endpoints starting at any live Link never leads back to
\* that Link; in particular no live Link has its own index as from or to,
\* also after removals and slot reuse.
C35_ReferencesAcyclic ==
    panicked = "none" =>
        \A n \in LiveLinks(graph) :
            n \notin Following(graph, Endpoints(graph, n), Len(objects))

\* Some sequence of at most k remove_object calls that all return Ok takes g
\* to the store with no live element and empty maps.
RECURSIVE CanBeEmptied(_, _)
CanBeEmptied(g, k) ==
    \/ /\ Live(g) = {}
       /\ g.atom_indexes = EmptyMap
       /\ g.link_indexes = EmptyMap
    \/ /\ k > 0
       /\ \E i \in Live(g) :
             /\ remove_object(g, i).ret.ok
             /\ remove_object(g, i).g.panic = "none"
             /\ CanBeEmptied(remove_object(g, i).g, k - 1)

\* C36: the store can always be emptied: from every reachable non-empty
\* state at least one live element exists on which remove_object returns
\* Ok, and repeating such removals reaches the state with no live element,
\* empty atom_indexes and empty link_indexes, without any call aborting.
C36_CanAlwaysBeEmptied ==
    (panicked = "none" /\ Live(graph) # {}) =>
        /\ \E i \in Live(graph) : remove_object(graph, i).ret.ok
        /\ CanBeEmptied(graph, Len(objects))

\* The maps of g hold exactly the live Atoms and Links of g, each under the
\* index of its only slot.
MapsExact(g) ==
    /\ DOMAIN g.atom_indexes = {ObjectAt(g, i).atom : i \in LiveAtoms(g)}
    /\ DOMAIN g.link_indexes = {LinkAt(g, i) : i \in LiveLinks(g)}
    /\ \A i \in LiveAtoms(g) : g.atom_indexes[ObjectAt(g, i).atom] = i
    /\ \A i \in LiveLinks(g) : g.link_indexes[LinkAt(g, i)] = i

\* C37: decode never aborts on malformed input: deserializing any sequence
\* of slot records, including one with two occupied slots holding equal Atom
\* values or equal Link pairs, or a Link whose endpoint is its own slot,
\* returns either an error or a Graph satisfying the uniqueness invariant;
\* it never trips the assert_eq!(old, None) of register_atom/register_link.
C37_DecodeNeverAborts ==
    call.op = "deserialize" =>
        /\ panicked = "none"
        /\ call.ret.ok => MapsExact(graph)

\* The last call on the graph created the element at index n.
Created(n) ==
    /\ call.op \in {"create_abstract", "use_atom", "use_link"}
    /\ call.ret = Ok(n)
    /\ n \notin Live(call.pre)

\* C38: a reused slot starts clean: every newly created element, also one
\* placed in a previously freed slot, starts with an empty description and
\* empty in_links and out_links; nothing of the element previously stored at
\* that index is visible through get_object on the new element.
C38_ReusedSlotClean ==
    \A n \in 0 .. Len(objects) - 1 :
        Created(n) =>
            /\ get_object(graph, n).ret.ok
            /\ get_object(graph, n).ret.val.object_data.description = ""
            /\ get_object(graph, n).ret.val.object_data.in_links = <<>>
            /\ get_object(graph, n).ret.val.object_data.out_links = <<>>
            /\ call.op = "create_abstract"
                  => is_abstract(
                        get_object(graph, n).ret.val.object_data.object)
            /\ call.op = "use_atom"
                  => get_object(graph, n).ret.val.object_data.object =
                        ObjectAtom(call.args[1])
            /\ call.op = "use_link"
                  => get_object(graph, n).ret.val.object_data.object =
                        ObjectLink(Link(call.args[1], call.args[2]))

\* An element was created in a freed slot that a live Link still refers to:
\* the element stored there before had back-links.
C38_Witness ==
    \E n \in 0 .. Len(objects) - 1 :
        /\ Created(n)
        /\ n < Len(call.pre.objects)
        /\ \E k \in LiveLinks(graph) :
              LinkAt(graph, k).from = n \/ LinkAt(graph, k).to = n
        /\ objects[n + 1].in_links = <<>>

UnusedSlots(s) ==
    {i \in 0 .. nb_slots(s) - 1 : s.slots[i + 1].kind = "Unused"}

\* The walk of the free list of s from head, of at most fuel steps: the
\* indexes visited, and whether the walk ended at None without leaving the
\* bounds or meeting a Used slot.
RECURSIVE FreeListWalk(_, _, _)
FreeListWalk(s, head, fuel) ==
    IF head = None
    THEN [visited |-> <<>>, ends |-> TRUE]
    ELSE IF \/ fuel = 0
            \/ head.val >= nb_slots(s)
            \/ s.slots[head.val + 1].kind # "Unused"
    THEN [visited |-> <<>>, ends |-> FALSE]
    ELSE LET rest == FreeListWalk(s, s.slots[head.val + 1].next, fuel - 1)
         IN [visited |-> <<head.val>> \o rest.visited, ends |-> rest.ends]

\* C40: free list well-formedness: after any sequence of SlotVec
\* insert/remove calls, the chain starting at next_unused_slot_id and
\* following Slot::Unused(next) visits every Unused slot exactly once,
\* visits no Used slot, stays in bounds and ends at None; the panics "Used
\* Slot in free list" and "Slot was used" are not reached.
C40_FreeListWellFormed ==
    LET walk == FreeListWalk(sv, sv.next_unused_slot_id, nb_slots(sv)) IN
    /\ walk.ends
    /\ Range(walk.visited) = UnusedSlots(sv)
    /\ Len(walk.visited) = Cardinality(UnusedSlots(sv))
    /\ sv.panic \notin {"Used Slot in free list", "Slot was used"}

\* An insert has taken the head of a free list of two slots: the list goes on
\* with the slot freed first, next to a slot in use.
C40_Witness ==
    /\ svtrace # <<>>
    /\ Last(svtrace).op = "insert"
    /\ Last(svtrace).ret \in 0 .. nb_slots(sv) - 1
    /\ sv.next_unused_slot_id # None
    /\ sv.slots[sv.next_unused_slot_id.val + 1] = Unused(None)
    /\ Cardinality(UsedSlots(sv)) >= 2

====
